---- MODULE Spec2Model ----
(***************************************************************************)
(* pws-api-wrapper: the validation / entity / serializer pattern shared by *)
(* the six resource classes (Engagement, Host, Port, Finding, NotePage,    *)
(* Scratchpad) and their endpoint operations over the shared session.      *)
(*                                                                         *)
(* Python values are tagged records [t |-> <type name>, v |-> <payload>];  *)
(* Python strings are TLA+ strings, inspected character by character with  *)
(* SubSeq, so that regular expressions, address parsing and message        *)
(* formatting are computed rather than assumed.                            *)
(***************************************************************************)
EXTENDS Integers, Sequences, FiniteSets, TLC

VARIABLES
    entities,   \* objects the caller holds: sequence of [kind, attrs]
    headers,    \* session.headers of the one shared requests.Session
    result      \* outcome of the last constructor / operation call

vars == <<entities, headers, result>>

----------------------------------------------------------------------------
(* Characters and strings                                                  *)

Char(s, i) == SubSeq(s, i, i)

DigitChars == {"0", "1", "2", "3", "4", "5", "6", "7", "8", "9"}

LowerChars ==
    {"a", "b", "c", "d", "e", "f", "g", "h", "i", "j", "k", "l", "m",
     "n", "o", "p", "q", "r", "s", "t", "u", "v", "w", "x", "y", "z"}

UpperChars ==
    {"A", "B", "C", "D", "E", "F", "G", "H", "I", "J", "K", "L", "M",
     "N", "O", "P", "Q", "R", "S", "T", "U", "V", "W", "X", "Y", "Z"}

\* the character class [a-zA-Z0-9]
AlnumChars == LowerChars \cup UpperChars \cup DigitChars

StartsWith(s, p) == Len(s) >= Len(p) /\ SubSeq(s, 1, Len(p)) = p

EndsWith(s, p) == Len(s) >= Len(p) /\ SubSeq(s, Len(s) - Len(p) + 1, Len(s)) = p

\* p occurs somewhere in s
Contains(s, p) ==
    \E i \in 1..(Len(s) - Len(p) + 1) : SubSeq(s, i, i + Len(p) - 1) = p

AllIn(s, chars) == \A i \in 1..Len(s) : Char(s, i) \in chars

DigitVal(c) ==
    CASE c = "0" -> 0 [] c = "1" -> 1 [] c = "2" -> 2 [] c = "3" -> 3
      [] c = "4" -> 4 [] c = "5" -> 5 [] c = "6" -> 6 [] c = "7" -> 7
      [] c = "8" -> 8 [] c = "9" -> 9 [] c \in {"a", "A"} -> 10
      [] c \in {"b", "B"} -> 11 [] c \in {"c", "C"} -> 12
      [] c \in {"d", "D"} -> 13 [] c \in {"e", "E"} -> 14
      [] c \in {"f", "F"} -> 15

DigitChar(d) == Char("0123456789abcdef", d + 1)

\* int(s, base) of a non-empty digit string
RECURSIVE StrToNat(_, _)
StrToNat(s, base) ==
    IF Len(s) = 0 THEN 0
    ELSE StrToNat(SubSeq(s, 1, Len(s) - 1), base) * base + DigitVal(Char(s, Len(s)))

\* the digits of a natural number in the given base, no leading zeros
RECURSIVE NatToStr(_, _)
NatToStr(n, base) ==
    IF n < base THEN DigitChar(n)
    ELSE NatToStr(n \div base, base) \o DigitChar(n % base)

\* str(n) of a Python int
IntToStr(n) == IF n < 0 THEN "-" \o NatToStr(0 - n, 10) ELSE NatToStr(n, 10)

\* n as decimal text, zero padded on the left to the given width
RECURSIVE ZeroPad(_, _)
ZeroPad(s, width) == IF Len(s) >= width THEN s ELSE ZeroPad("0" \o s, width)

\* the pieces of a text that was cut in two: the last piece of the left half
\* and the first piece of the right half are one piece
Glue(a, b) == SubSeq(a, 1, Len(a) - 1) \o <<a[Len(a)] \o b[1]>> \o Tail(b)

\* str.split(sep) for a one-character separator, by halves of the text
RECURSIVE Split(_, _)
Split(s, sep) ==
    IF Len(s) = 0 THEN <<"">>
    ELSE IF Len(s) = 1 THEN (IF s = sep THEN <<"", "">> ELSE <<s>>)
    ELSE CHOOSE r \in
            {Glue(a, b) :
                a \in {Split(SubSeq(s, 1, Len(s) \div 2), sep)},
                b \in {Split(SubSeq(s, Len(s) \div 2 + 1, Len(s)), sep)}} : TRUE

\* sep.join(parts): neighbours are joined pairwise until one text is left
RECURSIVE Join(_, _)
Join(parts, sep) ==
    IF Len(parts) = 0 THEN ""
    ELSE IF Len(parts) = 1 THEN parts[1]
    ELSE Join([i \in 1..((Len(parts) + 1) \div 2) |->
                 IF 2 * i <= Len(parts)
                 THEN parts[2 * i - 1] \o sep \o parts[2 * i]
                 ELSE parts[2 * i - 1]], sep)

\* str.replace(old, new) for a one-character old, by halves of the text
RECURSIVE Replace(_, _, _)
Replace(s, old, new) ==
    IF Len(s) = 0 THEN ""
    ELSE IF Len(s) = 1 THEN (IF s = old THEN new ELSE s)
    ELSE Replace(SubSeq(s, 1, Len(s) \div 2), old, new)
         \o Replace(SubSeq(s, Len(s) \div 2 + 1, Len(s)), old, new)

----------------------------------------------------------------------------
(* Python values                                                           *)

PStr(s)   == [t |-> "str", v |-> s]
PInt(n)   == [t |-> "int", v |-> n]
PBool(b)  == [t |-> "bool", v |-> b]
\* a float, held as its decimal text (5.5 is PFloat("5.5"))
PFloat(x) == [t |-> "float", v |-> x]
PNone     == [t |-> "NoneType", v |-> "None"]
PList(xs) == [t |-> "list", v |-> xs]
\* a dict with string keys, held as a function from keys to values
PDict(d)  == [t |-> "dict", v |-> d]

IsStr(x)   == x.t = "str"
IsBool(x)  == x.t = "bool"
\* isinstance(x, int): bool is a subclass of int
IsInt(x)   == x.t \in {"int", "bool"}
IsFloat(x) == x.t = "float"
IsNone(x)  == x.t = "NoneType"
IsList(x)  == x.t = "list"
IsDict(x)  == x.t = "dict"
IsDatetime(x) == x.t = "datetime"

\* str(x) as used by f-strings for the values that appear in messages
PyStr(x) ==
    CASE x.t = "str" -> x.v
      [] x.t = "int" -> IntToStr(x.v)
      [] x.t = "bool" -> (IF x.v THEN "True" ELSE "False")
      [] x.t = "float" -> x.v
      [] x.t = "NoneType" -> "None"
      [] OTHER -> "<object>"

\* the empty mapping, and mapping update / removal
EmptyMap == [k \in {} |-> PNone]

Put(m, k, x) == [a \in DOMAIN m \cup {k} |-> IF a = k THEN x ELSE m[a]]

Del(m, k) == [a \in DOMAIN m \ {k} |-> m[a]]

Has(m, k) == k \in DOMAIN m

----------------------------------------------------------------------------
(* ipaddress.ip_address and str() of the parsed address, as called by      *)
(* Host's  Use(lambda ip: str(ip_address(ip)))                             *)

HexChars == DigitChars \cup {"a", "b", "c", "d", "e", "f",
                             "A", "B", "C", "D", "E", "F"}

\* IPv4Address._parse_octet accepts the octet text
OctetOk(o) ==
    /\ Len(o) >= 1
    /\ Len(o) <= 3
    /\ AllIn(o, DigitChars)
    /\ (o = "0" \/ Char(o, 1) # "0")
    /\ StrToNat(o, 10) <= 255

IsIPv4(s) ==
    /\ ~Contains(s, "/")
    /\ LET octets == Split(s, ".")
       IN  Len(octets) = 4 /\ \A i \in 1..4 : OctetOk(octets[i])

\* the four octets of an accepted IPv4 text
IPv4Octets(s) == [i \in 1..4 |-> StrToNat(Split(s, ".")[i], 10)]

\* IPv6Address._parse_hextet accepts the group text
HextetOk(h) == Len(h) >= 1 /\ Len(h) <= 4 /\ AllIn(h, HexChars)

\* positions 2..n-1 of the split text that are empty (the "::" candidates)
SkipIndexes(parts) == {i \in 2..(Len(parts) - 1) : parts[i] = ""}

\* the groups before / after the "::" that must be parsed, as index sets
PartsHi(parts) ==
    IF SkipIndexes(parts) = {} THEN 1..Len(parts)
    ELSE LET k == CHOOSE i \in SkipIndexes(parts) : TRUE
         IN  IF parts[1] = "" THEN 2..(k - 1) ELSE 1..(k - 1)

PartsLo(parts) ==
    IF SkipIndexes(parts) = {} THEN {}
    ELSE LET k == CHOOSE i \in SkipIndexes(parts) : TRUE
         IN  IF parts[Len(parts)] = "" THEN (k + 1)..(Len(parts) - 1)
             ELSE (k + 1)..Len(parts)

IsIPv6(s) ==
    /\ s # ""
    /\ ~Contains(s, "/")
    /\ ~Contains(s, "%")
    /\ LET parts == Split(s, ":")
           n     == Len(parts)
       IN  /\ n >= 3
           /\ ~Contains(parts[n], ".")
           /\ n <= 9
           /\ Cardinality(SkipIndexes(parts)) <= 1
           /\ IF SkipIndexes(parts) = {}
              THEN n = 8 /\ parts[1] # "" /\ parts[n] # ""
              ELSE /\ parts[1] = "" => PartsHi(parts) = {}
                   /\ parts[n] = "" => PartsLo(parts) = {}
                   /\ Cardinality(PartsHi(parts)) + Cardinality(PartsLo(parts)) <= 7
           /\ \A i \in PartsHi(parts) \cup PartsLo(parts) : HextetOk(parts[i])

\* the eight 16-bit groups of an accepted IPv6 text
IPv6Hextets(s) ==
    LET parts == Split(s, ":")
        hi    == PartsHi(parts)
        lo    == PartsLo(parts)
        first == IF hi = {} THEN 1 ELSE CHOOSE i \in hi : \A j \in hi : i <= j
        n     == Len(parts)
        nlo   == Cardinality(lo)
    IN  [g \in 1..8 |->
            IF g <= Cardinality(hi) THEN StrToNat(parts[first + g - 1], 16)
            ELSE IF g > 8 - nlo THEN
                StrToNat(parts[(IF parts[n] = "" THEN n - 1 ELSE n) - (8 - g)], 16)
            ELSE 0]

\* length of the run of zero groups that starts at position i
RECURSIVE ZeroRun(_, _)
ZeroRun(h, i) == IF i > Len(h) \/ h[i] # 0 THEN 0 ELSE 1 + ZeroRun(h, i + 1)

\* IPv6Address._compress_hextets followed by ':'.join
IPv6Str(h) ==
    LET best  == CHOOSE n \in 0..8 :
                    /\ \E i \in 1..8 : ZeroRun(h, i) = n
                    /\ \A i \in 1..8 : ZeroRun(h, i) <= n
        start == CHOOSE i \in 1..8 :
                    /\ ZeroRun(h, i) = best
                    /\ \A j \in 1..(i - 1) : ZeroRun(h, j) < best
        text  == [i \in 1..8 |-> NatToStr(h[i], 16)]
    IN  IF best > 1
        THEN Join(SubSeq(text, 1, start - 1), ":") \o "::"
             \o Join(SubSeq(text, start + best, 8), ":")
        ELSE Join(text, ":")

IPv4Str(o) == Join([i \in 1..4 |-> NatToStr(o[i], 10)], ".")

\* ip_address(s) does not raise ValueError
IsIPAddress(s) == IsIPv4(s) \/ IsIPv6(s)

\* the address a text denotes: its version and its groups
ip_address(s) ==
    IF IsIPv4(s) THEN [version |-> 4, groups |-> IPv4Octets(s)]
    ELSE [version |-> 6, groups |-> IPv6Hextets(s)]

\* str(ip_address(s))
IPStr(a) == IF a.version = 4 THEN IPv4Str(a.groups) ELSE IPv6Str(a.groups)

----------------------------------------------------------------------------
(* The enumerations of the resource modules                                *)

\* host.py: (short code, human-readable label)
OS_TYPES ==
    <<<<"Android", "Android">>, <<"Apple", "Apple">>, <<"Linux", "Linux">>,
      <<"question", "Unknown">>, <<"Windows", "Windows">>>>

TYPES ==
    <<<<"wifi", "Access Point">>, <<"volume-up", "Audio">>,
      <<"laptop", "Laptop">>, <<"mobile", "Mobile">>, <<"phone", "Phone">>,
      <<"printer", "Printer">>, <<"question", "Unknown">>,
      <<"sitemap", "Router">>, <<"server", "Server">>,
      <<"tablet", "Tablet">>, <<"tv", "TV">>, <<"desktop", "Workstation">>>>

\* port.py
PROTOCOLS == <<"tcp", "udp">>

STATUSES == <<"Needs Review", "Vulnerable", "Checked", "Owned">>

STATES ==
    <<"open", "filtered", "closed", "unfiltered", "open|filtered",
      "closed|filtered">>

\* notePage.py
OBJECT_TYPES == <<"e", "hosts", "ports">>

\* scratchpad.py
LANGUAGES ==
    <<"abap", "abc", "actionscript", "ada", "apache_conf", "asciidoc",
      "asl", "assembly_x86", "autohotkey", "sh", "batchfile", "bro",
      "c_cpp", "csharp", "c9search", "cirru", "clojure", "cobol", "coffee",
      "coldfusion", "csound_orchestra", "csound_document", "csound_score",
      "css", "curly", "d", "dart", "diff", "django", "dockerfile", "dot",
      "drools", "edifact", "eiffel", "ejs", "elixir", "elm", "erlang",
      "forth", "fortran", "ftl", "fsharp", "gcode", "gherkin", "gitignore",
      "glsl", "golang", "gobstones", "graphqlschema", "groovy", "haml",
      "handlebars", "haskell", "haskell_cabal", "haxe", "hjson", "html",
      "html_elixir", "html_ruby", "ini", "io", "jack", "jade", "java",
      "javascript", "json", "jsoniq", "jsp", "jssm", "jsx", "julia",
      "kotlin", "latex", "less", "liquid", "lisp", "livescript", "logiql",
      "lsl", "lua", "luapage", "lucene", "makefile", "markdown", "mask",
      "matlab", "maze", "mel", "mixal", "mushcode", "mysql", "nix", "nsis",
      "objectivec", "ocaml", "pascal", "perl", "pgsql", "php",
      "php_laravel_blade", "pig", "plain_text", "powershell", "praat",
      "prolog", "properties", "protobuf", "puppet", "python", "r", "razor",
      "rdoc", "red", "rhtml", "rst", "ruby", "rust", "sass", "scad",
      "scala", "scheme", "scss", "sh", "sjs", "slim", "smarty", "snippets",
      "soy_template", "space", "sql", "sqlserver", "stylus", "svg",
      "swift", "tcl", "terraform", "tex", "text", "textile", "toml", "tsx",
      "twig", "typescript", "vala", "vbscript", "velocity", "verilog",
      "vhdl", "wollok", "xml", "xquery">>

\* scratchpad.py's TYPES
SCRATCHPAD_TYPES == <<"code", "rich">>

Range(seq) == {seq[i] : i \in 1..Len(seq)}

\* str(list_of_str)[1:-1]:  'a', 'b', 'c'
ListRepr(seq) == Join([i \in 1..Len(seq) |-> "'" \o seq[i] \o "'"], ", ")

----------------------------------------------------------------------------
(* The schema library: one rule per field.                                 *)
(*   req      the key is a plain key (required), not Optional(key)         *)
(*   check    the constraint the value must meet                            *)
(*   vals     the enumeration the constraint refers to                      *)
(*   nullable the rule is Or(..., None)                                     *)
(*   msg      the error= text of the rule                                   *)

Rule(req, check, vals, nullable, msg) ==
    [req |-> req, check |-> check, vals |-> vals, nullable |-> nullable,
     msg |-> msg]

\* Regex(r"^[a-zA-Z0-9]{8,}$", flags=re.IGNORECASE).search: "$" also matches
\* just before a newline that ends the string
MatchId(s) ==
    LET body == IF EndsWith(s, "\n") THEN SubSeq(s, 1, Len(s) - 1) ELSE s
    IN  Len(body) >= 8 /\ AllIn(body, AlnumChars)

\* Regex(r"[a-zA-Z0-9]+", flags=re.IGNORECASE).search
MatchTitle(s) == \E i \in 1..Len(s) : Char(s, i) \in AlnumChars

\* the short codes only: the second alternative of the Or is lost
InPairs_CodesOnly(s, pairs) == s \in {pairs[i][1] : i \in 1..Len(pairs)}

\* Or(lambda v: v in [t[0] for t in L], lambda v: v in [t[1] for t in L], L)
\* applied to a str: the third alternative is a list schema, which no str meets
InPairs(s, pairs) ==
    \/ s \in {pairs[i][1] : i \in 1..Len(pairs)}
    \/ s \in {pairs[i][2] : i \in 1..Len(pairs)}

\* the same Or over a list of plain strings: t[0] and t[1] are then the first
\* and second character of each entry, and t[1] raises IndexError (which the
\* schema library turns into a failed alternative) when an entry has one
\* character only
InFirstSecondChars(s, names) ==
    \/ s \in {Char(names[i], 1) : i \in 1..Len(names)}
    \/ /\ \A i \in 1..Len(names) : Len(names[i]) >= 2
       /\ s \in {Char(names[i], 2) : i \in 1..Len(names)}

\* [dict, {str, str}]: an element is a dict, or a set of str
ChecklistItemOk(x) ==
    \/ IsDict(x)
    \/ x.t = "set" /\ \A y \in x.v : IsStr(y)

\* the upper bound taken as exclusive
PortInRange_Exclusive(x) == x.t = "int" /\ 0 <= x.v /\ x.v < 65535

\* And(int, lambda submitted_port: 0 <= submitted_port <= 65535)
PortInRange(x) == x.t = "int" /\ 0 <= x.v /\ x.v <= 65535

\* the value meets the rule's constraint
Accepts(rule, x) ==
    \/ rule.nullable /\ IsNone(x)
    \/ CASE rule.check = "id" -> IsStr(x) /\ MatchId(x.v)
         [] rule.check = "bool" -> IsBool(x)
         [] rule.check = "str" -> IsStr(x)
         [] rule.check = "float" -> IsFloat(x)
         [] rule.check = "pairs" -> IsStr(x) /\ InPairs(x.v, rule.vals)
         [] rule.check = "chars" -> IsStr(x) /\ InFirstSecondChars(x.v, rule.vals)
         [] rule.check = "enum" -> IsStr(x) /\ x.v \in Range(rule.vals)
         [] rule.check = "title" -> IsStr(x) /\ MatchTitle(x.v)
         [] rule.check = "target" -> IsStr(x) /\ IsIPAddress(x.v)
         [] rule.check = "port" -> PortInRange(x)
         [] rule.check = "checklist" ->
                IsList(x) /\ \A i \in 1..Len(x.v) : ChecklistItemOk(x.v[i])
         [] rule.check = "dread" ->
                IsList(x) /\ \A i \in 1..Len(x.v) : IsStr(x.v[i])

\* the target handed on as it was supplied
Validated_AsSupplied(rule, x) == x

\* the value the rule hands on: Use(...) transforms, everything else passes
Validated(rule, x) ==
    IF rule.check = "target" /\ IsStr(x) THEN PStr(IPStr(ip_address(x.v))) ELSE x

----------------------------------------------------------------------------
(* The declarative rule sets of the five schema-validated resources        *)

\* host.py: the Schema of Host.__init__
HostSchema ==
    [board_id |->
        Rule(FALSE, "id", <<>>, FALSE, "\"board_id\" should be 8 alphanumeric characters"),
     eid |->
        Rule(FALSE, "id", <<>>, FALSE, "\"eid\" should be 8 alphanumeric characters"),
     flagged |->
        Rule(FALSE, "bool", <<>>, FALSE, "\"flagged\" should be True/False boolean"),
     hostnames |->
        Rule(FALSE, "str", <<>>, FALSE, "\"hostnames\" should be a string"),
     id |->
        Rule(FALSE, "id", <<>>, FALSE, "\"id\" should be 8 alphanumeric characters"),
     label |->
        Rule(FALSE, "str", <<>>, TRUE, "\"label\" should be a string."),
     notes |->
        Rule(FALSE, "str", <<>>, TRUE, "\"notes\" should be a string"),
     os |->
        Rule(FALSE, "str", <<>>, TRUE, "\"os\" should be a string"),
     os_type |->
        Rule(FALSE, "pairs", OS_TYPES, FALSE, "Not a valid \"os_type\"."),
     out_of_scope |->
        Rule(FALSE, "bool", <<>>, FALSE, "\"out_of_scope\" should be True/False boolean"),
     owned |->
        Rule(FALSE, "bool", <<>>, FALSE, "\"owned\" should be True/False boolean"),
     reviewed |->
        Rule(FALSE, "bool", <<>>, FALSE, "\"reviewed\" should be True/False boolean"),
     shell |->
        Rule(FALSE, "bool", <<>>, FALSE, "\"shell\" should be True/False boolean"),
     target |->
        Rule(TRUE, "target", <<>>, FALSE, "Target should be a valid IPv4 Address"),
     thumbs_down |->
        Rule(FALSE, "bool", <<>>, FALSE, "\"thumbs_down\" should be True/False boolean"),
     thumbs_up |->
        Rule(FALSE, "bool", <<>>, FALSE, "\"thumbs_up\" should be True/False boolean"),
     type |->
        Rule(FALSE, "pairs", TYPES, FALSE, "Not a valid \"type\".")]

\* port.py: the Schema of Port.__init__
PortSchema ==
    [checklist |->
        Rule(FALSE, "checklist", <<>>, TRUE, "\"checklist\" should be a list of dictionaries."),
     hid |->
        Rule(FALSE, "id", <<>>, FALSE, "\"hid\" should be 8 alphanumeric characters"),
     id |->
        Rule(FALSE, "id", <<>>, FALSE, "\"id\" should be 8 alphanumeric characters"),
     port |->
        Rule(TRUE, "port", <<>>, FALSE, "\"port\" should be an intiger between 0 and 65,535."),
     proto |->
        Rule(FALSE, "enum", PROTOCOLS, TRUE, "\"proto\" should be \"tcp\", \"udp\", or None"),
     service |->
        Rule(FALSE, "str", <<>>, TRUE, "\"service\" should be a string."),
     status |->
        Rule(FALSE, "enum", STATUSES, TRUE, "Not a valid \"status\"."),
     state |->
        Rule(FALSE, "enum", STATES, TRUE, "Not a valid \"state\"."),
     notes |->
        Rule(FALSE, "str", <<>>, TRUE, "\"notes\" should be a string"),
     version |->
        Rule(FALSE, "str", <<>>, TRUE, "\"version\" should be a string")]

\* finding.py: the Schema of Finding.__init__
FindingSchema ==
    [id |->
        Rule(FALSE, "id", <<>>, FALSE, "\"id\" should be 8 alphanumeric characters"),
     eid |->
        Rule(FALSE, "id", <<>>, FALSE, "\"e\" should be 8 alphanumeric characters"),
     finding_id |->
        Rule(FALSE, "str", <<>>, TRUE, "\"finding_id\" should be a string"),
     title |->
        Rule(TRUE, "title", <<>>, FALSE, "Finding \"title\" is required."),
     environment |->
        Rule(FALSE, "str", <<>>, TRUE, "\"environment\" should be a string"),
     category |->
        Rule(FALSE, "str", <<>>, TRUE, "\"category\" should be a string"),
     risk_level |->
        Rule(FALSE, "str", <<>>, TRUE, "\"risk_level\" should be a string"),
     cvss2_num |->
        Rule(FALSE, "float", <<>>, TRUE, "\"cvss2_num\" should be a string"),
     cvss2_str |->
        Rule(FALSE, "str", <<>>, TRUE, "\"cvss2_str\" should be a string"),
     cvss3_num |->
        Rule(FALSE, "float", <<>>, TRUE, "\"cvss3_num\" should be a string"),
     cvss3_str |->
        Rule(FALSE, "str", <<>>, TRUE, "\"cvss3_str\" should be a string"),
     dread |->
        Rule(FALSE, "dread", <<>>, TRUE, "\"dread\" should be a list of strings."),
     background |->
        Rule(FALSE, "str", <<>>, TRUE, "\"background\" should be a string"),
     desc_brief |->
        Rule(FALSE, "str", <<>>, TRUE, "\"desc_brief\" should be a string"),
     desc_full |->
        Rule(FALSE, "str", <<>>, TRUE, "\"desc_full\" should be a string"),
     impact_brief |->
        Rule(FALSE, "str", <<>>, TRUE, "\"impact_brief\" should be a string"),
     impact_full |->
        Rule(FALSE, "str", <<>>, TRUE, "\"impact_full\" should be a string"),
     reco_brief |->
        Rule(FALSE, "str", <<>>, TRUE, "\"reco_brief\" should be a string"),
     reco_full |->
        Rule(FALSE, "str", <<>>, TRUE, "\"reco_full\" should be a string"),
     reco_effort |->
        Rule(FALSE, "str", <<>>, TRUE, "\"reco_effort\" should be a string"),
     targets |->
        Rule(FALSE, "str", <<>>, TRUE, "\"targets\" should be a string"),
     references |->
        Rule(FALSE, "str", <<>>, TRUE, "\"references\" should be a string"),
     evidence |->
        Rule(FALSE, "str", <<>>, TRUE, "\"evidence\" should be a string"),
     validation_steps |->
        Rule(FALSE, "str", <<>>, TRUE, "\"validation_steps\" should be a string"),
     remediation_log |->
        Rule(FALSE, "str", <<>>, TRUE, "\"remediation_log\" should be a string"),
     created_at |->
        Rule(FALSE, "str", <<>>, TRUE, "\"created_at\" should be a string")]

\* notePage.py: the Schema of NotePage.__init__
NotePageSchema ==
    [content |->
        Rule(FALSE, "str", <<>>, TRUE, "\"contented\" should be a string or None."),
     id |->
        Rule(FALSE, "id", <<>>, FALSE, "\"id\" should be 8 alphanumeric characters"),
     oid |->
        Rule(FALSE, "id", <<>>, FALSE, "\"oid\" should be 8 alphanumeric characters"),
     otype |->
        Rule(FALSE, "chars", OBJECT_TYPES, FALSE, "\"otype\" should be one of the following: " \o ListRepr(OBJECT_TYPES)),
     title |->
        Rule(TRUE, "title", <<>>, FALSE, "Note Page \"title\" is required.")]

\* scratchpad.py: the Schema of Scratchpad.__init__
ScratchpadSchema ==
    [hid |->
        Rule(FALSE, "id", <<>>, FALSE, "\"hid\" should be 8 alphanumeric characters"),
     id |->
        Rule(FALSE, "id", <<>>, FALSE, "\"id\" should be 8 alphanumeric characters"),
     title |->
        Rule(TRUE, "title", <<>>, FALSE, "Scratchpad \"title\" is required."),
     type |->
        Rule(FALSE, "enum", SCRATCHPAD_TYPES, TRUE, "\"type\" should be None or one of the following: " \o ListRepr(SCRATCHPAD_TYPES)),
     language |->
        Rule(FALSE, "enum", LANGUAGES, TRUE, "\"language\" should be None or one of the following: " \o ListRepr(LANGUAGES)),
     content |->
        Rule(FALSE, "str", <<>>, TRUE, "\"contented\" should be a string or None.")]

----------------------------------------------------------------------------
(* Schema.validate on a dict                                               *)

NoKey == "-"

\* the supplied keys whose value breaks the rule of that key
FailingKeys(schema, data) ==
    {k \in DOMAIN data \cap DOMAIN schema : ~Accepts(schema[k], data[k])}

MissingKeys(schema, data) == {k \in DOMAIN schema : schema[k].req} \ DOMAIN data

WrongKeys(schema, data) == DOMAIN data \ DOMAIN schema

\* validation that does not look for missing required keys
validate_NoMissingCheck(schema, data, bad) ==
    IF FailingKeys(schema, data) # {}
    THEN [ok |-> FALSE, exc |-> "SchemaError", msg |-> schema[bad].msg]
    ELSE IF WrongKeys(schema, data) # {}
    THEN [ok |-> FALSE, exc |-> "SchemaWrongKeyError",
          msg |-> "Wrong key '"
                  \o (CHOOSE k \in WrongKeys(schema, data) : TRUE) \o "' in {...}"]
    ELSE [ok |-> TRUE,
          args |-> [k \in DOMAIN data |-> Validated(schema[k], data[k])]]

\* validation that reports the text of some supplied key's rule instead of
\* the text of the rule that failed
validate_AnyRuleMessage(schema, data, bad) ==
    IF FailingKeys(schema, data) # {}
    THEN [ok |-> FALSE, exc |-> "SchemaError",
          msg |-> schema[CHOOSE k \in DOMAIN data \cap DOMAIN schema : TRUE].msg]
    ELSE IF MissingKeys(schema, data) # {}
    THEN [ok |-> FALSE, exc |-> "SchemaMissingKeyError",
          msg |-> "Missing key: '"
                  \o (CHOOSE k \in MissingKeys(schema, data) : TRUE) \o "'"]
    ELSE IF WrongKeys(schema, data) # {}
    THEN [ok |-> FALSE, exc |-> "SchemaWrongKeyError",
          msg |-> "Wrong key '"
                  \o (CHOOSE k \in WrongKeys(schema, data) : TRUE) \o "' in {...}"]
    ELSE [ok |-> TRUE,
          args |-> [k \in DOMAIN data |-> Validated(schema[k], data[k])]]

\* The values are validated in the order of the supplied dict and the first
\* failure raises, so the caller's key order picks which failing key (bad) is
\* reported; missing required keys and unknown keys are looked at only after
\* every supplied value has passed.  The repr of the data in the wrong-key
\* text is abbreviated.
validate(schema, data, bad) ==
    IF FailingKeys(schema, data) # {}
    THEN [ok |-> FALSE, exc |-> "SchemaError", msg |-> schema[bad].msg]
    ELSE IF MissingKeys(schema, data) # {}
    THEN [ok |-> FALSE, exc |-> "SchemaMissingKeyError",
          msg |-> "Missing key: '"
                  \o (CHOOSE k \in MissingKeys(schema, data) : TRUE) \o "'"]
    ELSE IF WrongKeys(schema, data) # {}
    THEN [ok |-> FALSE, exc |-> "SchemaWrongKeyError",
          msg |-> "Wrong key '"
                  \o (CHOOSE k \in WrongKeys(schema, data) : TRUE) \o "' in {...}"]
    ELSE [ok |-> TRUE,
          args |-> [k \in DOMAIN data |-> Validated(schema[k], data[k])]]

\* the keys the caller's ordering can make the reported one
BadChoices(schema, data) ==
    IF FailingKeys(schema, data) = {} THEN {NoKey} ELSE FailingKeys(schema, data)

----------------------------------------------------------------------------
(* The constructors                                                        *)

\* AbstractEndpoint.path
path == "https://pentest.ws/api/v1"

Raised(exc, msg) == [ok |-> FALSE, exc |-> exc, msg |-> msg]

Built(attrs) == [ok |-> TRUE, attrs |-> attrs]

\* try: self.<attr> = f"{path}/<segment>/{self.id}"  except AttributeError: pass
WithSelfPath(attrs, attr, segment) ==
    IF Has(attrs, "id")
    THEN Put(attrs, attr, PStr(path \o "/" \o segment \o "/" \o PyStr(attrs["id"])))
    ELSE attrs

\* the body shared by the five schema-validated constructors: validate, raise
\* on failure, install every validated key, derive the self address if there
\* is an id, then read the parent identifier (an AttributeError when it was
\* not supplied) and derive the collection address
SchemaInit(schema, data, bad, selfAttr, segment, parentKey, parentAttr, parentSegment) ==
    LET v == validate(schema, data, bad)
    IN  IF ~v.ok THEN Raised(v.exc, v.msg)
        ELSE LET a == WithSelfPath(v.args, selfAttr, segment)
             IN  IF ~Has(a, parentKey)
                 THEN Raised("AttributeError",
                             "object has no attribute '" \o parentKey \o "'")
                 ELSE Built(Put(a, parentAttr,
                                PStr(path \o "/" \o parentSegment \o "/"
                                     \o PyStr(a[parentKey]) \o "/" \o segment)))

Host_init(data, bad) ==
    SchemaInit(HostSchema, data, bad, "host_path", "hosts",
               "eid", "engagement_path", "e")

Port_init(data, bad) ==
    SchemaInit(PortSchema, data, bad, "port_path", "ports",
               "hid", "host_path", "hosts")

Finding_init(data, bad) ==
    SchemaInit(FindingSchema, data, bad, "finding_path", "findings",
               "eid", "engagement_path", "e")

Scratchpad_init(data, bad) ==
    SchemaInit(ScratchpadSchema, data, bad, "scratchpad_path", "scratchpads",
               "hid", "host_path", "hosts")

\* NotePage reads both oid and otype before deriving object_path
NotePage_init(data, bad) ==
    LET v == validate(NotePageSchema, data, bad)
    IN  IF ~v.ok THEN Raised(v.exc, v.msg)
        ELSE LET a == WithSelfPath(v.args, "notepad_path", "notepages")
             IN  IF ~Has(a, "oid")
                 THEN Raised("AttributeError", "object has no attribute 'oid'")
                 ELSE IF ~Has(a, "otype")
                 THEN Raised("AttributeError", "object has no attribute 'otype'")
                 ELSE Built(Put(a, "object_path",
                                PStr(path \o "/" \o PyStr(a["otype"]) \o "/"
                                     \o PyStr(a["oid"]) \o "/notepages")))

----------------------------------------------------------------------------
(* Timestamps: datetime.strptime(text.replace("Z", "+0000"),               *)
(* "%Y-%m-%dT%H:%M:%S.%f%z") and the strftime of to_dict                   *)

PDatetime(d) == [t |-> "datetime", v |-> d]

\* a one or two digit field whose value lies in lo..hi
FieldOk(txt, lo, hi) ==
    /\ Len(txt) \in {1, 2}
    /\ AllIn(txt, DigitChars)
    /\ StrToNat(txt, 10) >= lo
    /\ StrToNat(txt, 10) <= hi

IsLeap(y) == (y % 4 = 0 /\ y % 100 # 0) \/ y % 400 = 0

DaysIn(y, m) ==
    IF m = 2 THEN (IF IsLeap(y) THEN 29 ELSE 28)
    ELSE IF m \in {4, 6, 9, 11} THEN 30 ELSE 31

\* number of leading decimal digits of a text
RECURSIVE DigitPrefix(_)
DigitPrefix(txt) ==
    IF Len(txt) = 0 \/ Char(txt, 1) \notin DigitChars THEN 0
    ELSE 1 + DigitPrefix(SubSeq(txt, 2, Len(txt)))

\* %z: [+-]hhmm or [+-]hh:mm
OffsetOk(z) ==
    /\ Len(z) \in {5, 6}
    /\ Char(z, 1) \in {"+", "-"}
    /\ AllIn(SubSeq(z, 2, 3), DigitChars)
    /\ IF Len(z) = 5 THEN AllIn(SubSeq(z, 4, 5), DigitChars)
       ELSE Char(z, 4) = ":" /\ AllIn(SubSeq(z, 5, 6), DigitChars)
    /\ Char(z, Len(z) - 1) \in {"0", "1", "2", "3", "4", "5"}

\* right-pad the fraction digits with zeros to six places (%f)
RECURSIVE PadRight(_, _)
PadRight(txt, width) == IF Len(txt) >= width THEN txt ELSE PadRight(txt \o "0", width)

\* the text is accepted by strptime with the format above
TimestampOk(text) ==
    LET dt == Split(text, "T")
    IN  /\ Len(dt) = 2
        /\ LET date == Split(dt[1], "-")
               tm   == Split(dt[2], ".")
           IN  /\ Len(date) = 3
               /\ Len(tm) = 2
               /\ Len(date[1]) = 4 /\ AllIn(date[1], DigitChars)
               /\ StrToNat(date[1], 10) >= 1
               /\ FieldOk(date[2], 1, 12)
               /\ FieldOk(date[3], 1, 31)
               /\ StrToNat(date[3], 10)
                    <= DaysIn(StrToNat(date[1], 10), StrToNat(date[2], 10))
               /\ LET hms == Split(tm[1], ":")
                      nf  == DigitPrefix(tm[2])
                  IN  /\ Len(hms) = 3
                      /\ FieldOk(hms[1], 0, 23)
                      /\ FieldOk(hms[2], 0, 59)
                      /\ FieldOk(hms[3], 0, 59)
                      /\ nf >= 1 /\ nf <= 6
                      /\ OffsetOk(SubSeq(tm[2], nf + 1, Len(tm[2])))

\* the datetime an accepted text denotes (wall-clock fields and offset)
strptime(text) ==
    LET dt   == Split(text, "T")
        date == Split(dt[1], "-")
        tm   == Split(dt[2], ".")
        hms  == Split(tm[1], ":")
        nf   == DigitPrefix(tm[2])
    IN  PDatetime([year |-> StrToNat(date[1], 10),
                   month |-> StrToNat(date[2], 10),
                   day |-> StrToNat(date[3], 10),
                   hour |-> StrToNat(hms[1], 10),
                   minute |-> StrToNat(hms[2], 10),
                   second |-> StrToNat(hms[3], 10),
                   microsecond |-> StrToNat(PadRight(SubSeq(tm[2], 1, nf), 6), 10),
                   tzinfo |-> SubSeq(tm[2], nf + 1, Len(tm[2]))])

\* datetime.strftime(d, "%Y-%m-%dT%H:%M:%S.%f")
strftime(d) ==
    ZeroPad(NatToStr(d.year, 10), 4) \o "-" \o ZeroPad(NatToStr(d.month, 10), 2)
    \o "-" \o ZeroPad(NatToStr(d.day, 10), 2) \o "T"
    \o ZeroPad(NatToStr(d.hour, 10), 2) \o ":"
    \o ZeroPad(NatToStr(d.minute, 10), 2) \o ":"
    \o ZeroPad(NatToStr(d.second, 10), 2) \o "."
    \o ZeroPad(NatToStr(d.microsecond, 10), 6)

----------------------------------------------------------------------------
(* Engagement.__init__(name, id="", created_at="", notes="", client_id="", *)
(* archived=""): no schema, keyword defaults instead                       *)

EngagementParams == {"name", "id", "created_at", "notes", "client_id", "archived"}

Arg(kwargs, k) == IF Has(kwargs, k) THEN kwargs[k] ELSE PStr("")

\* created_at / archived is converted unless it is "" or None
TimeGiven(x) == x # PStr("") /\ ~IsNone(x)

TimeBad(x) == TimeGiven(x) /\ (~IsStr(x) \/ ~TimestampOk(Replace(x.v, "Z", "+0000")))

WithTime(attrs, k, x) ==
    IF TimeGiven(x) THEN Put(attrs, k, strptime(Replace(x.v, "Z", "+0000")))
    ELSE attrs

Engagement_init(kwargs) ==
    IF DOMAIN kwargs \ EngagementParams # {}
    THEN Raised("TypeError", "__init__() got an unexpected keyword argument")
    ELSE IF ~Has(kwargs, "name")
    THEN Raised("TypeError",
                "__init__() missing 1 required positional argument: 'name'")
    ELSE LET a0 == IF Arg(kwargs, "id") # PStr("")
                   THEN [id |-> Arg(kwargs, "id")] ELSE EmptyMap
             a1 == Put(Put(Put(a0, "name", kwargs["name"]),
                           "notes", Arg(kwargs, "notes")),
                       "client_id", Arg(kwargs, "client_id"))
         IN  IF TimeBad(Arg(kwargs, "created_at"))
             THEN Raised(IF IsStr(Arg(kwargs, "created_at")) THEN "ValueError"
                         ELSE "AttributeError", "created_at")
             ELSE IF TimeBad(Arg(kwargs, "archived"))
             THEN Raised(IF IsStr(Arg(kwargs, "archived")) THEN "ValueError"
                         ELSE "AttributeError", "archived")
             ELSE Built(WithTime(WithTime(a1, "created_at",
                                          Arg(kwargs, "created_at")),
                                 "archived", Arg(kwargs, "archived")))

----------------------------------------------------------------------------
(* AbstractEndpoint.to_dict                                                *)

\* serialization that does not hold back the derived address attributes
Serialized_WithPaths(attrs, a) ==
    \/ IsDatetime(attrs[a])
    \/ IsStr(attrs[a]) /\ ~StartsWith(a, "__")
    \/ IsBool(attrs[a]) \/ IsInt(attrs[a]) \/ IsList(attrs[a])

\* serialization that takes every number, not only the integers
Serialized_Numbers(attrs, a) ==
    \/ IsDatetime(attrs[a])
    \/ IsStr(attrs[a]) /\ ~StartsWith(a, "__") /\ ~EndsWith(a, "path")
    \/ IsBool(attrs[a]) \/ IsInt(attrs[a]) \/ IsFloat(attrs[a])
    \/ IsList(attrs[a])

\* the attribute is emitted
Serialized(attrs, a) ==
    \/ IsDatetime(attrs[a])
    \/ IsStr(attrs[a]) /\ ~StartsWith(a, "__") /\ ~EndsWith(a, "path")
    \/ IsBool(attrs[a]) \/ IsInt(attrs[a]) \/ IsList(attrs[a])

\* a datetime emitted to the nearest millisecond
Emitted_Rounded(x) ==
    IF IsDatetime(x)
    THEN PStr(SubSeq(strftime(x.v), 1, 20)
              \o ZeroPad(NatToStr(((x.v.microsecond + 500) \div 1000) % 1000,
                                  10), 3)
              \o "Z")
    ELSE x

\* the emitted value: a datetime as text with the last three digits of the
\* microseconds cut off and "Z" appended, anything else as it is
Emitted(x) ==
    IF IsDatetime(x)
    THEN PStr(SubSeq(strftime(x.v), 1, Len(strftime(x.v)) - 3) \o "Z")
    ELSE x

to_dict(attrs) ==
    [a \in {k \in DOMAIN attrs : Serialized(attrs, k)} |-> Emitted(attrs[a])]

----------------------------------------------------------------------------
(* create: one POST through the shared session                             *)

Kinds == {"Engagement", "Host", "Port", "Finding", "NotePage", "Scratchpad"}

SchemaKinds == Kinds \ {"Engagement"}

\* what an endpoint call hands back: the entity's attributes afterwards,
\* whether it returned or raised, the returned text (or the exception's
\* name), and the requests it issued
Outcome(attrs, how, exc, value, requests) ==
    [attrs |-> attrs, how |-> how, exc |-> exc, value |-> value,
     requests |-> requests]

Request(method, url, hdrs, body) ==
    [method |-> method, url |-> url, headers |-> hdrs, body |-> body]

\* the identifier of the response is not kept
StoreId_Skipped(attrs, body) == attrs

\* self.id = response.json()["id"]
StoreId(attrs, body) == Put(attrs, "id", body["id"])

\* the server's message handed on without the prefix
ErrorText_Bare(body) == PyStr(body["msg"])

\* f"Error: {response.json()['msg']}"
ErrorText(body) == "Error: " \o PyStr(body["msg"])

\* the part of create after the POST: status 200 stores response.json()["id"]
\* and builds the confirmation, status 400 builds the error text from
\* response.json()["msg"]; with any other status no message is bound and
\* "return message" raises UnboundLocalError, unless the method has an else
\* branch (elseMsg) that reads the msg as well
AfterPost(label, who, attrs, status, body, req, elseMsg) ==
    IF status = 200
    THEN IF ~Has(body, "id")
         THEN Outcome(attrs, "raised", "KeyError", "'id'", <<req>>)
         ELSE IF ~Has(attrs, who)
         THEN Outcome(StoreId(attrs, body), "raised",
                      "AttributeError", who, <<req>>)
         ELSE Outcome(StoreId(attrs, body), "returned", "",
                      label \o " " \o PyStr(attrs[who]) \o " ("
                      \o PyStr(body["id"]) \o ") created.", <<req>>)
    ELSE IF status = 400 \/ elseMsg
    THEN IF ~Has(body, "msg")
         THEN Outcome(attrs, "raised", "KeyError", "'msg'", <<req>>)
         ELSE Outcome(attrs, "returned", "", ErrorText(body), <<req>>)
    ELSE Outcome(attrs, "raised", "UnboundLocalError", "message", <<req>>)

\* the serialized entity sent as it is
Payload_Whole(attrs, drop) == to_dict(attrs)

\* d = self.to_dict(); del d[drop]  (drop = NoKey: nothing is deleted)
Payload(attrs, drop) ==
    IF drop = NoKey THEN to_dict(attrs) ELSE Del(to_dict(attrs), drop)

\* json.dumps(to_dict()) after "del d[drop]" (drop = NoKey: nothing deleted),
\* posted to the address held in the attribute urlAttr
PostEntity(label, who, attrs, hdrs, drop, urlAttr, status, body, elseMsg) ==
    IF drop # NoKey /\ ~Has(to_dict(attrs), drop)
    THEN Outcome(attrs, "raised", "KeyError", "'" \o drop \o "'", <<>>)
    ELSE IF ~Has(attrs, urlAttr)
    THEN Outcome(attrs, "raised", "AttributeError", urlAttr, <<>>)
    ELSE AfterPost(label, who, attrs, status, body,
                   Request("POST", attrs[urlAttr].v, hdrs, Payload(attrs, drop)),
                   elseMsg)

Engagement_create(attrs, hdrs, status, body) ==
    AfterPost("Engagement", "name", attrs, status, body,
              Request("POST", path \o "/e", hdrs, to_dict(attrs)), FALSE)

Host_create(attrs, hdrs, status, body) ==
    PostEntity("Host", "target", attrs, hdrs, "eid", "engagement_path",
               status, body, FALSE)

Port_create(attrs, hdrs, status, body) ==
    PostEntity("Port", "port", attrs, hdrs, "hid", "host_path",
               status, body, TRUE)

Finding_create(attrs, hdrs, status, body) ==
    PostEntity("Finding", "title", attrs, hdrs, "eid", "engagement_path",
               status, body, FALSE)

NotePage_create(attrs, hdrs, status, body) ==
    PostEntity("Note Page", "title", attrs, hdrs, NoKey, "object_path",
               status, body, FALSE)

Scratchpad_create(attrs, hdrs, status, body) ==
    PostEntity("Scratchpad", "title", attrs, hdrs, NoKey, "host_path",
               status, body, FALSE)

\* the constructor of a kind
NewEntity(kind, data, bad) ==
    CASE kind = "Engagement" -> Engagement_init(data)
      [] kind = "Host" -> Host_init(data, bad)
      [] kind = "Port" -> Port_init(data, bad)
      [] kind = "Finding" -> Finding_init(data, bad)
      [] kind = "NotePage" -> NotePage_init(data, bad)
      [] kind = "Scratchpad" -> Scratchpad_init(data, bad)

SchemaOf(kind) ==
    CASE kind = "Host" -> HostSchema
      [] kind = "Port" -> PortSchema
      [] kind = "Finding" -> FindingSchema
      [] kind = "NotePage" -> NotePageSchema
      [] kind = "Scratchpad" -> ScratchpadSchema
      [] OTHER -> EmptyMap

\* the create method of a kind
CreateOf(kind, attrs, hdrs, status, body) ==
    CASE kind = "Engagement" -> Engagement_create(attrs, hdrs, status, body)
      [] kind = "Host" -> Host_create(attrs, hdrs, status, body)
      [] kind = "Port" -> Port_create(attrs, hdrs, status, body)
      [] kind = "Finding" -> Finding_create(attrs, hdrs, status, body)
      [] kind = "NotePage" -> NotePage_create(attrs, hdrs, status, body)
      [] kind = "Scratchpad" -> Scratchpad_create(attrs, hdrs, status, body)

----------------------------------------------------------------------------
(* delete and update                                                       *)

\* response.reason for the statuses the server answers with
ReasonOf(status) ==
    CASE status = 200 -> "OK"
      [] status = 400 -> "Bad Request"
      [] status = 404 -> "Not Found"
      [] OTHER -> "Internal Server Error"

\* f"<Kind> {label} ({self.id})": both attributes are read
Named(label, who, attrs) ==
    label \o " " \o PyStr(attrs[who]) \o " (" \o PyStr(attrs["id"]) \o ")"

\* the attribute that reading who and then id trips over (NoKey: neither)
Unreadable(attrs, who) ==
    IF ~Has(attrs, who) THEN who ELSE IF ~Has(attrs, "id") THEN "id" ELSE NoKey

\* a delete that takes the id off the entity once the server has confirmed
AfterDelete_Cleared(label, who, attrs, status, req, tail) ==
    IF status = 200 \/ status = 404
    THEN IF Unreadable(attrs, who) # NoKey
         THEN Outcome(attrs, "raised", "AttributeError",
                      Unreadable(attrs, who), <<req>>)
         ELSE Outcome(IF status = 200 THEN Del(attrs, "id") ELSE attrs,
                      "returned", "",
                      IF status = 200
                      THEN Named(label, who, attrs) \o " deleted."
                      ELSE "Error: " \o Named(label, who, attrs)
                           \o " not found" \o tail,
                      <<req>>)
    ELSE Outcome(attrs, "raised", "UnboundLocalError", "message", <<req>>)

\* the part of delete after the DELETE: 200 confirms, 404 reports, with any
\* other status no message is bound and "return message" raises
AfterDelete(label, who, attrs, status, req, tail) ==
    IF status = 200 \/ status = 404
    THEN IF Unreadable(attrs, who) # NoKey
         THEN Outcome(attrs, "raised", "AttributeError",
                      Unreadable(attrs, who), <<req>>)
         ELSE Outcome(attrs, "returned", "",
                      IF status = 200
                      THEN Named(label, who, attrs) \o " deleted."
                      ELSE "Error: " \o Named(label, who, attrs)
                           \o " not found" \o tail,
                      <<req>>)
    ELSE Outcome(attrs, "raised", "UnboundLocalError", "message", <<req>>)

\* delete of a kind whose address is the attribute urlAttr
DeleteAt(label, who, attrs, hdrs, urlAttr, status, tail) ==
    IF ~Has(attrs, urlAttr)
    THEN Outcome(attrs, "raised", "AttributeError", urlAttr, <<>>)
    ELSE AfterDelete(label, who, attrs, status,
                     Request("DELETE", attrs[urlAttr].v, hdrs, EmptyMap), tail)

\* Engagement.delete builds its address from self.id
Engagement_delete(attrs, hdrs, status) ==
    IF ~Has(attrs, "id")
    THEN Outcome(attrs, "raised", "AttributeError", "id", <<>>)
    ELSE AfterDelete("Engagement", "name", attrs, status,
                     Request("DELETE", path \o "/e/" \o PyStr(attrs["id"]),
                             hdrs, EmptyMap), "")

Host_delete(attrs, hdrs, status) ==
    DeleteAt("Host", "target", attrs, hdrs, "host_path", status, "")

NotePage_delete(attrs, hdrs, status) ==
    DeleteAt("Note Page", "title", attrs, hdrs, "notepad_path", status, ".")

\* the first of the keys that the dict lacks (NoKey: it has them all)
RECURSIVE FirstLacking(_, _)
FirstLacking(d, keys) ==
    IF keys = <<>> THEN NoKey
    ELSE IF ~Has(d, keys[1]) THEN keys[1]
    ELSE FirstLacking(d, Tail(keys))

\* the dict after "del data[k]" for every k of keys
DelAll(d, keys) == [a \in DOMAIN d \ Range(keys) |-> d[a]]

\* what the error branch of an update makes of the response
MsgError(body) ==
    IF Has(body, "msg") THEN [ok |-> TRUE, text |-> ErrorText(body)]
    ELSE [ok |-> FALSE, text |-> "'msg'"]

ReasonError(status) == [ok |-> TRUE, text |-> "Error: " \o ReasonOf(status)]

\* the part of update after the PUT: 200 confirms, the status errStatus
\* reports, with any other status "return message" raises
AfterPut(label, who, attrs, status, errStatus, err, req) ==
    IF status = 200
    THEN IF Unreadable(attrs, who) # NoKey
         THEN Outcome(attrs, "raised", "AttributeError",
                      Unreadable(attrs, who), <<req>>)
         ELSE Outcome(attrs, "returned", "",
                      Named(label, who, attrs) \o " updated.", <<req>>)
    ELSE IF status = errStatus
    THEN IF err.ok THEN Outcome(attrs, "returned", "", err.text, <<req>>)
         ELSE Outcome(attrs, "raised", "KeyError", err.text, <<req>>)
    ELSE Outcome(attrs, "raised", "UnboundLocalError", "message", <<req>>)

\* the fields update takes out of the serialized entity
UpdateDrops(kind) ==
    CASE kind = "Engagement" -> <<"id", "created_at", "archived">>
      [] kind = "Host" -> <<"id", "eid">>
      [] kind = "NotePage" -> <<"id", "oid", "otype">>
      [] OTHER -> <<>>

\* the dict update sends: to_dict() after the dels
UpdateBody(kind, attrs) == DelAll(to_dict(attrs), UpdateDrops(kind))

\* update of a kind whose address is the attribute urlAttr: every "del"
\* raises KeyError when to_dict() has no such key
PutAt(kind, label, who, attrs, hdrs, urlAttr, status, errStatus, err) ==
    IF FirstLacking(to_dict(attrs), UpdateDrops(kind)) # NoKey
    THEN Outcome(attrs, "raised", "KeyError",
                 "'" \o FirstLacking(to_dict(attrs), UpdateDrops(kind)) \o "'",
                 <<>>)
    ELSE IF ~Has(attrs, urlAttr)
    THEN Outcome(attrs, "raised", "AttributeError", urlAttr, <<>>)
    ELSE AfterPut(label, who, attrs, status, errStatus, err,
                  Request("PUT", attrs[urlAttr].v, hdrs,
                          UpdateBody(kind, attrs)))

\* Engagement.update builds its address from self.id
Engagement_update(attrs, hdrs, status, body) ==
    IF FirstLacking(to_dict(attrs), UpdateDrops("Engagement")) # NoKey
    THEN Outcome(attrs, "raised", "KeyError",
                 "'" \o FirstLacking(to_dict(attrs), UpdateDrops("Engagement"))
                 \o "'", <<>>)
    ELSE AfterPut("Engagement", "name", attrs, status, 400, MsgError(body),
                  Request("PUT", path \o "/e/" \o PyStr(attrs["id"]), hdrs,
                          UpdateBody("Engagement", attrs)))

Host_update(attrs, hdrs, status, body) ==
    PutAt("Host", "Host", "target", attrs, hdrs, "host_path", status, 400,
          MsgError(body))

NotePage_update(attrs, hdrs, status, body) ==
    PutAt("NotePage", "Note Page", "title", attrs, hdrs, "notepad_path",
          status, 404, ReasonError(status))

\* the kinds that have the method
DeleteKinds == {"Engagement", "Host", "NotePage"}

UpdateKinds == {"Engagement", "Host", "NotePage"}

\* entity.method() on a class that does not define the method: the attribute
\* lookup raises before anything is sent
NoMethod(attrs, method) ==
    Outcome(attrs, "raised", "AttributeError", method, <<>>)

DeleteOf(kind, attrs, hdrs, status) ==
    CASE kind = "Engagement" -> Engagement_delete(attrs, hdrs, status)
      [] kind = "Host" -> Host_delete(attrs, hdrs, status)
      [] kind = "NotePage" -> NotePage_delete(attrs, hdrs, status)
      [] kind \notin DeleteKinds -> NoMethod(attrs, "delete")

UpdateOf(kind, attrs, hdrs, status, body) ==
    CASE kind = "Engagement" -> Engagement_update(attrs, hdrs, status, body)
      [] kind = "Host" -> Host_update(attrs, hdrs, status, body)
      [] kind = "NotePage" -> NotePage_update(attrs, hdrs, status, body)
      [] kind \notin UpdateKinds -> NoMethod(attrs, "update")

----------------------------------------------------------------------------
(* The read calls.  A response body is a JSON value: PDict of a mapping or  *)
(* PList of JSON values.  The attrs of the outcome is what the call hands   *)
(* back: an entity's attributes, or a sequence of them.                     *)

\* response.raise_for_status(): HTTPError for 4xx and 5xx
HTTPError(status) == 400 <= status /\ status < 600

\* Kind(**response.json()): only a mapping can follow "**"
FromJson(kind, json, bad) ==
    IF ~IsDict(json)
    THEN Raised("TypeError", "argument after ** must be a mapping")
    ELSE NewEntity(kind, json.v, bad)

\* the self segment of the kinds that have get(id)
GetKinds == {"Host", "Port", "NotePage", "Scratchpad"}

SegmentOf(kind) ==
    CASE kind = "Host" -> "hosts"
      [] kind = "Port" -> "ports"
      [] kind = "NotePage" -> "notepages"
      [] kind = "Scratchpad" -> "scratchpads"

\* a get that sends its request a second time when the first one failed
GetEntity_Retried(kind, id, hdrs, status, json, bad) ==
    LET req == Request("GET", path \o "/" \o SegmentOf(kind) \o "/" \o id,
                       hdrs, EmptyMap)
        Made(r) == IF r.ok THEN Outcome(r.attrs, "returned", "", "", <<req>>)
                   ELSE Outcome(EmptyMap, "raised", r.exc, r.msg, <<req>>)
    IN  IF HTTPError(status)
        THEN Outcome(EmptyMap, "raised", "SystemExit", ReasonOf(status),
                     <<req, req>>)
        ELSE Made(FromJson(kind, json, bad))

\* Host.get, Port.get, NotePage.get, Scratchpad.get: an HTTPError becomes
\* SystemExit, anything else goes to the constructor
GetEntity(kind, id, hdrs, status, json, bad) ==
    LET req == Request("GET", path \o "/" \o SegmentOf(kind) \o "/" \o id,
                       hdrs, EmptyMap)
        Made(r) == IF r.ok THEN Outcome(r.attrs, "returned", "", "", <<req>>)
                   ELSE Outcome(EmptyMap, "raised", r.exc, r.msg, <<req>>)
    IN  IF HTTPError(status)
        THEN Outcome(EmptyMap, "raised", "SystemExit", ReasonOf(status), <<req>>)
        ELSE Made(FromJson(kind, json, bad))

\* the kinds that have get_all(parent id), and the address it reads
GetAllKinds == {"Host", "Port", "Scratchpad"}

CollectionOf(kind, parent) ==
    IF kind = "Host" THEN path \o "/e/" \o parent \o "/hosts"
    ELSE path \o "/hosts/" \o parent \o "/" \o SegmentOf(kind)

\* what "for x in response.json()" walks over: the items of a list, the keys
\* of a dict
Items(json) ==
    IF IsList(json) THEN json.v
    ELSE IF IsDict(json)
    THEN LET RECURSIVE Keys(_)
             Keys(S) == IF S = {} THEN <<>>
                        ELSE LET k == CHOOSE x \in S : TRUE
                             IN  <<PStr(k)>> \o Keys(S \ {k})
         IN  Keys(DOMAIN json.v)
    ELSE <<>>

\* a get_all that leaves out the items the constructor rejects
GetAllEntities_SkipInvalid(kind, parent, hdrs, status, json, bad) ==
    LET req == Request("GET", CollectionOf(kind, parent), hdrs, EmptyMap)
        RECURSIVE Kept(_)
        Kept(built) ==
            IF built = <<>> THEN <<>>
            ELSE (IF built[1].ok THEN <<built[1].attrs>> ELSE <<>>)
                 \o Kept(Tail(built))
        Each(items) == [n \in 1..Len(items) |-> FromJson(kind, items[n], bad)]
    IN  Outcome(Kept(Each(Items(json))), "returned", "", "", <<req>>)

\* Host.get_all, Port.get_all, Scratchpad.get_all: the status is not looked
\* at; every item goes to the constructor and the first failure raises
GetAllEntities(kind, parent, hdrs, status, json, bad) ==
    LET req == Request("GET", CollectionOf(kind, parent), hdrs, EmptyMap)
        Made(built) ==
            LET fails == {n \in DOMAIN built : ~built[n].ok}
                first == CHOOSE n \in fails : \A m \in fails : n <= m
            IN  IF fails # {}
                THEN Outcome(<<>>, "raised", built[first].exc,
                             built[first].msg, <<req>>)
                ELSE Outcome([n \in DOMAIN built |-> built[n].attrs],
                             "returned", "", "", <<req>>)
        Each(items) == [n \in 1..Len(items) |-> FromJson(kind, items[n], bad)]
    IN  Made(Each(Items(json)))

\* Engagement.get_all: the decoded body is returned whatever the status
Engagement_get_all(hdrs, status, json) ==
    Outcome(json, "returned", "", "",
            <<Request("GET", path \o "/e", hdrs, EmptyMap)>>)

\* engagement["name"] on an item of the walk: a dict without the key raises
\* KeyError, a str (a key of a dict body) raises TypeError
NameFault(item) ==
    IF ~IsDict(item) THEN "TypeError"
    ELSE IF ~Has(item.v, "name") THEN "KeyError"
    ELSE ""

\* a get_eid that takes the last engagement of the name
Engagement_get_eid_LastMatch(name, hdrs, status, json) ==
    LET Found(all, items) ==
            LET faulty  == {n \in 1..Len(items) : NameFault(items[n]) # ""}
                first   == CHOOSE n \in faulty : \A m \in faulty : n <= m
                matches == SelectSeq(items, LAMBDA e : e.v["name"] = PStr(name))
            IN  IF faulty # {}
                THEN Outcome(EmptyMap, "raised", NameFault(items[first]),
                             "'name'", all.requests)
                ELSE IF matches = <<>>
                THEN Outcome(EmptyMap, "raised", "IndexError",
                             "list index out of range", all.requests)
                ELSE Outcome(matches[Len(matches)].v["id"], "returned", "",
                             PyStr(matches[Len(matches)].v["id"]), all.requests)
        Walk(all) == Found(all, Items(all.attrs))
    IN  Walk(Engagement_get_all(hdrs, status, json))

\* Engagement.get_eid: list(filter(name ==, get_all()))[0]["id"]
Engagement_get_eid(name, hdrs, status, json) ==
    LET Found(all, items) ==
            LET faulty  == {n \in 1..Len(items) : NameFault(items[n]) # ""}
                first   == CHOOSE n \in faulty : \A m \in faulty : n <= m
                matches == SelectSeq(items, LAMBDA e : e.v["name"] = PStr(name))
            IN  IF faulty # {}
                THEN Outcome(EmptyMap, "raised", NameFault(items[first]),
                             "'name'", all.requests)
                ELSE IF matches = <<>>
                THEN Outcome(EmptyMap, "raised", "IndexError",
                             "list index out of range", all.requests)
                ELSE IF ~Has(matches[1].v, "id")
                THEN Outcome(EmptyMap, "raised", "KeyError", "'id'",
                             all.requests)
                ELSE Outcome(matches[1].v["id"], "returned", "",
                             PyStr(matches[1].v["id"]), all.requests)
        Walk(all) == Found(all, Items(all.attrs))
    IN  Walk(Engagement_get_all(hdrs, status, json))

\* Engagement.get: get_eid, then a read of the engagement's own address,
\* then the constructor on the decoded body
Engagement_get(name, hdrs, status1, json1, status2, json2) ==
    LET Made(r, reqs) ==
            IF r.ok THEN Outcome(r.attrs, "returned", "", "", reqs)
            ELSE Outcome(EmptyMap, "raised", r.exc, r.msg, reqs)
        Then(eid) ==
            IF eid.how = "raised" THEN eid
            ELSE Made(IF IsDict(json2) THEN Engagement_init(json2.v)
                      ELSE Raised("TypeError",
                                  "argument after ** must be a mapping"),
                      eid.requests
                      \o <<Request("GET", path \o "/e/" \o eid.value, hdrs,
                                   EmptyMap)>>)
    IN  Then(Engagement_get_eid(name, hdrs, status1, json1))

----------------------------------------------------------------------------
(* session.py                                                              *)

\* a get_api_key that falls back to an empty key
get_api_key_Defaulted(environ) ==
    [ok |-> TRUE,
     key |-> IF Has(environ, "PENTEST_WS_API_KEY")
             THEN environ["PENTEST_WS_API_KEY"] ELSE ""]

\* get_api_key: os.environ.get("PENTEST_WS_API_KEY", None), None raises
get_api_key(environ) ==
    IF Has(environ, "PENTEST_WS_API_KEY")
    THEN [ok |-> TRUE, key |-> environ["PENTEST_WS_API_KEY"]]
    ELSE Raised("APIKeyMissingError", "All methods require an API key.")

\* a session that is given the key only
session_KeyOnly(environ) ==
    LET k == get_api_key(environ)
    IN  IF k.ok
        THEN [ok |-> TRUE, headers |-> [h \in {"X-API-KEY"} |-> k.key]]
        ELSE k

\* the module body: the session's headers once the import has succeeded; a
\* failed import leaves no module and so no session to any endpoint class
session(environ) ==
    LET k == get_api_key(environ)
    IN  IF k.ok
        THEN [ok |-> TRUE,
              headers |-> [h \in {"X-API-KEY", "accept"} |->
                             IF h = "accept" THEN "application/json" ELSE k.key]]
        ELSE k

----------------------------------------------------------------------------
(* Inputs: the field mappings the tests use, and one-field variations       *)

HostBase ==
    [target |-> PStr("1.2.3.4"), board_id |-> PStr("abcd1234"),
     eid |-> PStr("ZaAvk46j"), flagged |-> PBool(TRUE),
     hostnames |-> PStr("host"), id |-> PStr("No3e25l6"),
     label |-> PStr("label"), notes |-> PStr("Note"), os |-> PStr("OS"),
     os_type |-> PStr("Linux"), out_of_scope |-> PBool(TRUE),
     owned |-> PBool(FALSE), reviewed |-> PBool(TRUE), shell |-> PBool(TRUE),
     thumbs_down |-> PBool(TRUE), thumbs_up |-> PBool(TRUE),
     type |-> PStr("Unknown")]

PortBase ==
    [id |-> PStr("56VqkKba"), hid |-> PStr("za4AlEP6"), port |-> PInt(22),
     proto |-> PStr("tcp"), service |-> PStr("SSH"), version |-> PStr("2.3"),
     status |-> PStr("Needs Review"), state |-> PStr("open"),
     notes |-> PStr("Some Notes"),
     checklist |-> PList(<<PDict([x \in {"0"} |-> PStr("Log In?")])>>)]

FindingBase ==
    [id |-> PStr("abdc1234"), eid |-> PStr("46yEw36g"),
     finding_id |-> PStr("01"), title |-> PStr("Test Finding"),
     environment |-> PStr("Web App"), category |-> PStr("Injection"),
     risk_level |-> PStr("Critical"), cvss2_num |-> PFloat("5.5"),
     cvss2_str |-> PStr("AV:N/AC:L"), cvss3_num |-> PFloat("6.4"),
     cvss3_str |-> PStr("AV:N/AC:L/PR:L"),
     dread |-> PList(<<PStr("9  Admin data"), PStr("10 Very easy")>>),
     background |-> PStr("html"), desc_brief |-> PStr("html"),
     desc_full |-> PStr("html"), impact_brief |-> PStr("html"),
     impact_full |-> PStr("html"), reco_brief |-> PStr("html"),
     reco_full |-> PStr("html"), reco_effort |-> PStr("html"),
     targets |-> PStr("html"), references |-> PStr("html"),
     evidence |-> PStr("html"), validation_steps |-> PStr("html"),
     remediation_log |-> PStr("html")]

NotePageBase ==
    [id |-> PStr("1ab5Mqoy"), oid |-> PStr("46yEw36g"), otype |-> PStr("e"),
     title |-> PStr("Engagement Test Note"),
     content |-> PStr("Some text is here.")]

ScratchpadBase ==
    [id |-> PStr("1abWR16y"), hid |-> PStr("za4AlEP6"),
     title |-> PStr("README.md"), type |-> PStr("code"),
     language |-> PStr("markdown"), content |-> PStr("hash:user")]

EngagementBase ==
    [id |-> PStr("7aBB7za9"), name |-> PStr("Engagement 1"),
     notes |-> PStr("<strong>Test 1</strong>"), client_id |-> PStr(""),
     created_at |-> PStr("2021-02-05T19:59:27.104Z")]

BaseOf(kind) ==
    CASE kind = "Engagement" -> EngagementBase
      [] kind = "Host" -> HostBase
      [] kind = "Port" -> PortBase
      [] kind = "Finding" -> FindingBase
      [] kind = "NotePage" -> NotePageBase
      [] kind = "Scratchpad" -> ScratchpadBase

Strs(S) == {PStr(x) : x \in S}

\* identifier texts: well formed (8, 9 characters), too short, with a
\* non-alphanumeric character, with a trailing newline, empty
IdTexts ==
    {"za4Kz7oy", "abcd12345", "abc1234", "abcd123!", "abcdefgh\n", ""}

TargetTexts ==
    {"1.2.3.4", "255.255.255.255", "2001:db8:85a3::8a2e:370:7334",
     "2001:0DB8:85A3:0000:0000:8A2E:0370:7334", "2001:db8::1",
     "2001:db8:0:0:0:0:0:1", "::1", "456.1.1.1", "1.2.3.4.5", "1.1.1.2456",
     "01.2.3.4", "test", "",
     "2001:0db8:85a3:0000:0000:8a2e:0370:7334:asdf"}

\* the values tried for a field, by the constraint of its rule
Candidates(rule) ==
    {PInt(1), PNone} \cup
    CASE rule.check = "id" -> Strs(IdTexts)
      [] rule.check = "bool" -> {PBool(TRUE), PBool(FALSE), PStr("1")}
      [] rule.check = "str" -> Strs({"text", ""})
      [] rule.check = "float" -> {PFloat("5.5"), PStr("5.5")}
      [] rule.check = "pairs" ->
            Strs({rule.vals[i][1] : i \in 1..Len(rule.vals)})
            \cup Strs({rule.vals[i][2] : i \in 1..Len(rule.vals)})
            \cup Strs({"other", ""})
      [] rule.check = "chars" ->
            Strs(Range(rule.vals)) \cup Strs({"h", "p", "o", "green"})
      [] rule.check = "enum" ->
            Strs({rule.vals[i] : i \in 1..(IF Len(rule.vals) > 6 THEN 6
                                           ELSE Len(rule.vals))})
            \cup Strs({"other", ""})
      [] rule.check = "title" -> Strs({"README.md", "", "!!", " a"})
      [] rule.check = "target" -> Strs(TargetTexts)
      [] rule.check = "port" ->
            {PInt(0 - 1), PInt(0), PInt(22), PInt(65535), PInt(65536),
             PStr("22"), PStr("a"), PFloat("1.2")}
      [] rule.check = "checklist" ->
            {PList(<<>>), PList(<<PStr("x")>>), PStr("adf"),
             PList(<<PDict([x \in {"0"} |-> PStr("Log In?")]), PInt(2)>>)}
      [] rule.check = "dread" ->
            {PList(<<>>), PList(<<PStr("9"), PInt(10)>>), PStr("9")}

\* a schema-validated kind: the base mapping, the base with one field left
\* out, the base with one field replaced or added, and the base with two
\* fields (the required one and its first identifier) replaced
SchemaInputs(kind) ==
    LET base   == BaseOf(kind)
        schema == SchemaOf(kind)
        req    == CHOOSE k \in DOMAIN schema : schema[k].req
    IN  {base}
        \cup {Del(base, k) : k \in DOMAIN base}
        \cup UNION {{Put(base, k, x) : x \in Candidates(schema[k])} :
                    k \in DOMAIN schema}
        \cup {Put(Put(base, req, PNone), "id", x) : x \in Strs({"abc1234", "za4Kz7oy"})}

TimeTexts ==
    {"2021-02-05T19:59:27.104Z", "2021-02-05T19:59:27.104999Z",
     "2021-02-05T19:59:27.1Z", "2021-2-5T19:59:27.104Z",
     "2021-02-30T19:59:27.104Z", "2021-02-05T19:59:27Z", ""}

EngagementInputs ==
    LET base == EngagementBase
    IN  {base}
        \cup {Del(base, k) : k \in DOMAIN base}
        \cup {Put(base, "id", x) : x \in Strs(IdTexts) \cup {PInt(1), PNone}}
        \cup {Put(base, k, x) : k \in {"created_at", "archived"},
                                x \in Strs(TimeTexts) \cup {PInt(1), PNone}}
        \cup {Put(base, k, x) : k \in {"name", "notes", "client_id"},
                                x \in Strs({"text", ""})}
        \cup {[name |-> PStr("Engagement 1")],
              [name |-> PStr("Engagement 1"), color |-> PStr("red")]}

ValidatorInputs(kind) ==
    IF kind = "Engagement" THEN EngagementInputs ELSE SchemaInputs(kind)

Restrict(m, keys) == [k \in DOMAIN m \cap keys |-> m[k]]

\* the fields of the fixtures that the lifecycle specification keeps
LifecycleKeys ==
    {"id", "eid", "hid", "oid", "otype", "name", "target", "port", "title",
     "notes", "flagged", "os_type", "proto", "checklist", "risk_level",
     "cvss2_num", "dread", "content", "language", "created_at"}

\* the mappings the lifecycle specification constructs entities from: the
\* test fixture of the kind, cut down to those fields, with and without id
LifecycleInputs(kind) ==
    {Restrict(BaseOf(kind), LifecycleKeys),
     Restrict(BaseOf(kind), LifecycleKeys \ {"id"})}

\* the identities and messages the server answers with
ServerIds == {"za4Kz7oy"}

ServerMsgs == {"Missing name"}

Statuses == {200, 400, 404, 500}

Bodies ==
    {[id |-> PStr(x)] : x \in ServerIds}
    \cup {[msg |-> PStr(x)] : x \in ServerMsgs}
    \cup {EmptyMap}

----------------------------------------------------------------------------
(* The state machine                                                       *)

\* how many entities the caller holds at once
MaxEntities == 1

\* the value of PENTEST_WS_API_KEY the session was built with
ApiKey == "secret-key"

\* the record of the last call
\*   op, kind   the call and the resource class it was made on
\*   ent        the position in entities of the object concerned (0: none)
\*   input      the constructor's keyword arguments / the response body
\*   status     the response status (0: no request was answered)
\*   how, exc   "returned", or "raised" and the exception's name
\*   value      the returned text, or the exception's text
\*   requests   the HTTP requests the call issued
Res(op, kind, ent, input, status, how, exc, value, requests) ==
    [op |-> op, kind |-> kind, ent |-> ent, input |-> input,
     status |-> status, how |-> how, exc |-> exc, value |-> value,
     requests |-> requests]

NoCall == Res("none", "", 0, EmptyMap, 0, "returned", "", "", <<>>)

\* session.py: the headers after the module has been imported
Init ==
    /\ entities = <<>>
    /\ headers = [h \in {"X-API-KEY", "accept"} |->
                    IF h = "accept" THEN "application/json" ELSE ApiKey]
    /\ result = NoCall

\* Kind(**data): the entity reaches the caller only if __init__ returns
Construct(kind, data, bad) ==
    LET r == NewEntity(kind, data, bad)
    IN  /\ IF r.ok
           THEN /\ entities' = Append(entities,
                                      [kind |-> kind, attrs |-> r.attrs])
                /\ result' = Res("construct", kind, Len(entities) + 1, data,
                                 0, "returned", "", "", <<>>)
           ELSE /\ entities' = entities
                /\ result' = Res("construct", kind, 0, data, 0, "raised",
                                 r.exc, r.msg, <<>>)
        /\ UNCHANGED headers

\* entities[i].create() answered by the server with (status, body): the
\* Content-Type header is set on the shared session first
Create(i, status, body) ==
    LET e    == entities[i]
        hdrs == Put(headers, "Content-Type", "application/json")
        r    == CreateOf(e.kind, e.attrs, hdrs, status, body)
    IN  /\ headers' = hdrs
        /\ entities' = [entities EXCEPT ![i].attrs = r.attrs]
        /\ result' = Res("create", e.kind, i, body, status, r.how, r.exc,
                         r.value, r.requests)

\* the life of entities: construction from the test fixtures and create
ConstructAny ==
    \E kind \in Kinds : \E data \in LifecycleInputs(kind) :
        \E bad \in BadChoices(SchemaOf(kind), data) :
            /\ Len(entities) < MaxEntities
            /\ Construct(kind, data, bad)

CreateAny ==
    \E i \in 1..Len(entities) : \E status \in Statuses : \E body \in Bodies :
        Create(i, status, body)

Next == ConstructAny \/ CreateAny

Spec == Init /\ [][Next]_vars

\* the constructors alone: the initial state holds the call about to be made,
\* one for every kind and every input mapping, and the one step makes it
Pending(kind, data) ==
    Res("pending", kind, 0, data, 0, "returned", "", "", <<>>)

InitValidate ==
    /\ entities = <<>>
    /\ headers = [h \in {"X-API-KEY", "accept"} |->
                    IF h = "accept" THEN "application/json" ELSE ApiKey]
    /\ \E kind \in Kinds : \E data \in ValidatorInputs(kind) :
          result = Pending(kind, data)

ConstructPending ==
    /\ result.op = "pending"
    /\ \E bad \in BadChoices(SchemaOf(result.kind), result.input) :
          Construct(result.kind, result.input, bad)

NextValidate == ConstructPending

SpecValidate == InitValidate /\ [][NextValidate]_vars

----------------------------------------------------------------------------
(* The state machine of all operations: the import of session.py first,    *)
(* then construction, create, update, delete, the read calls, and the      *)
(* caller's assignment of a new id                                         *)

\* the parent-linkage field that create of a kind leaves out of the body
LinkageField(kind) == IF kind = "Port" THEN "hid" ELSE "eid"

\* the environments the process is started in
Environments ==
    {[v \in {} |-> ""],
     [v \in {"HOME"} |-> "/root"],
     [v \in {"PENTEST_WS_API_KEY"} |-> ApiKey],
     [v \in {"PENTEST_WS_API_KEY", "HOME"} |->
        IF v = "HOME" THEN "/root" ELSE "k2"]}

\* the mappings entities are constructed from: those of the lifecycle, and
\* an archived engagement
OpsInputs(kind) ==
    LifecycleInputs(kind)
    \cup IF kind = "Engagement"
         THEN {Put(EngagementBase, "archived", PStr("2021-02-05T19:59:27.104Z"))}
         ELSE {}

\* what the server answers to a write
Answer(status, body) == [status |-> status, body |-> body]

Answers ==
    {Answer(200, [id |-> PStr(x)]) : x \in ServerIds}
    \cup {Answer(400, [msg |-> PStr(x)]) : x \in ServerMsgs}
    \cup {Answer(404, EmptyMap), Answer(500, EmptyMap),
          Answer(500, [msg |-> PStr("Internal Server Error")])}

\* what the server answers to a read of one entity of a kind
ErrorJson == PDict([msg |-> PStr("Not found")])

ReadAnswers(kind) ==
    {Answer(200, PDict(Restrict(BaseOf(kind), LifecycleKeys))),
     Answer(404, ErrorJson)}

\* lists of several entities of a kind: two that differ in the id, in
\* either order, and three of which the second has an id that is too short
LongLists(kind) ==
    LET one == Restrict(BaseOf(kind), LifecycleKeys)
        two == Put(one, "id", PStr("za4Kz7oy"))
        bad == Put(one, "id", PStr("abc1234"))
    IN  {<<PDict(one), PDict(two)>>, <<PDict(two), PDict(one)>>,
         <<PDict(one), PDict(bad), PDict(two)>>}

\* the key whose rule the first item that fails validation is reported for
ListBadChoices(kind, json) ==
    LET bad == {n \in 1..Len(Items(json)) :
                  /\ IsDict(Items(json)[n])
                  /\ FailingKeys(SchemaOf(kind), Items(json)[n].v) # {}}
    IN  IF bad = {} THEN {NoKey}
        ELSE FailingKeys(SchemaOf(kind),
                         Items(json)[CHOOSE n \in bad : \A m \in bad : n <= m].v)

\* what the server answers to a read of a collection of a kind
ListAnswers(kind) ==
    {Answer(200, PList(<<PDict(Restrict(BaseOf(kind), LifecycleKeys))>>)),
     Answer(200, PList(<<>>)),
     Answer(404, ErrorJson)}
    \cup {Answer(200, PList(l)) : l \in LongLists(kind)}

\* what the server answers to the read of all engagements: names need not
\* be unique
EngagementItem(id, name) == PDict([id |-> PStr(id), name |-> PStr(name)])

EngagementLists ==
    {<<>>,
     <<EngagementItem("zXy12345", "Engagement 2")>>,
     <<EngagementItem("zXy12345", "Engagement 2"),
       EngagementItem("7aBB7za9", "Engagement 1"),
       EngagementItem("Qw8rT5uV", "Engagement 1")>>,
     <<EngagementItem("Qw8rT5uV", "Engagement 1"),
       EngagementItem("zXy12345", "Engagement 2"),
       EngagementItem("7aBB7za9", "Engagement 1")>>}

EngagementListAnswers ==
    {Answer(200, PList(l)) : l \in EngagementLists} \cup {Answer(404, ErrorJson)}

LookupNames == {"Engagement 1", "Nobody"}

\* the id the caller assigns (tests/test_hosts.py: host.id = "abdc1234")
AssignedIds == {"abdc1234"}

\* the import has succeeded: the endpoint classes and their session exist
SessionReady == Has(headers, "X-API-KEY")

InitOps ==
    /\ entities = <<>>
    /\ headers = [h \in {} |-> ""]
    /\ \E environ \in Environments :
          result = Res("environ", "", 0, environ, 0, "returned", "", "", <<>>)

\* import pws_api_wrapper: session.py runs once, in the environment the
\* process was started in
ImportSession ==
    /\ result.op = "environ"
    /\ \E r \in {session(result.input)} :
          IF r.ok
          THEN /\ headers' = r.headers
               /\ result' = Res("import", "", 0, result.input, 0, "returned",
                                "", get_api_key(result.input).key, <<>>)
          ELSE /\ headers' = headers
               /\ result' = Res("import", "", 0, result.input, 0, "raised",
                                r.exc, r.msg, <<>>)
    /\ UNCHANGED entities

ConstructOps ==
    /\ Len(entities) < MaxEntities
    /\ \E kind \in Kinds : \E data \in OpsInputs(kind) :
          \E bad \in BadChoices(SchemaOf(kind), data) :
              Construct(kind, data, bad)

CreateOps ==
    \E i \in 1..Len(entities) : \E a \in Answers : Create(i, a.status, a.body)

\* entity.id = x, a plain attribute assignment by the caller
AssignId(i, x) ==
    /\ entities' = [entities EXCEPT ![i].attrs = Put(@, "id", PStr(x))]
    /\ result' = Res("assign", entities[i].kind, i, [id |-> PStr(x)], 0,
                     "returned", "", "", <<>>)
    /\ UNCHANGED headers

AssignIdOps ==
    \E i \in 1..Len(entities) : \E x \in AssignedIds :
        /\ ~(Has(entities[i].attrs, "id") /\ entities[i].attrs["id"] = PStr(x))
        /\ AssignId(i, x)

\* entities[i].delete() answered with status
Delete(i, status) ==
    \E r \in {DeleteOf(entities[i].kind, entities[i].attrs, headers, status)} :
        /\ entities' = [entities EXCEPT ![i].attrs = r.attrs]
        /\ result' = Res("delete", entities[i].kind, i, EmptyMap, status,
                         r.how, r.exc, r.value, r.requests)
        /\ UNCHANGED headers

DeleteOps ==
    \E i \in 1..Len(entities) : \E status \in {200, 404, 500} :
        Delete(i, status)

\* entities[i].update() answered with (status, body): the Content-Type
\* header is set on the shared session first, by the method's first
\* statement (a class without the method sets nothing)
Update(i, status, body) ==
    \E hdrs \in {IF entities[i].kind \in UpdateKinds
                 THEN Put(headers, "Content-Type", "application/json")
                 ELSE headers} :
        \E r \in {UpdateOf(entities[i].kind, entities[i].attrs, hdrs, status,
                           body)} :
            /\ headers' = hdrs
            /\ entities' = [entities EXCEPT ![i].attrs = r.attrs]
            /\ result' = Res("update", entities[i].kind, i, body, status,
                             r.how, r.exc, r.value, r.requests)

UpdateOps ==
    \E i \in 1..Len(entities) : \E a \in Answers :
        Update(i, a.status, a.body)

\* Kind.get(id) answered with (status, json): the entity it returns is held
\* by the caller
Get(kind, id, status, json, bad) ==
    \E r \in {GetEntity(kind, id, headers, status, json, bad)} :
        /\ IF r.how = "returned"
           THEN /\ entities' = Append(entities, [kind |-> kind, attrs |-> r.attrs])
                /\ result' = Res("get", kind, Len(entities) + 1, json, status,
                                 "returned", "", "", r.requests)
           ELSE /\ entities' = entities
                /\ result' = Res("get", kind, 0, json, status, "raised", r.exc,
                                 r.value, r.requests)
        /\ UNCHANGED headers

GetOps ==
    /\ Len(entities) < MaxEntities
    /\ \E kind \in GetKinds : \E a \in ReadAnswers(kind) :
          \E bad \in BadChoices(SchemaOf(kind), a.body.v) :
              Get(kind, BaseOf(kind)["id"].v, a.status, a.body, bad)

\* Kind.get_all(parent) answered with (status, json): the list it returns
\* is kept in the record of the call, and the caller holds on to its first
\* entities, as many as it has room for
GetAll(kind, parent, status, json, bad) ==
    \E r \in {GetAllEntities(kind, parent, headers, status, json, bad)} :
        \E room \in {IF Len(r.attrs) <= MaxEntities - Len(entities)
                     THEN Len(r.attrs) ELSE MaxEntities - Len(entities)} :
            /\ entities' = entities
                           \o [n \in 1..room |->
                                 [kind |-> kind, attrs |-> r.attrs[n]]]
            /\ result' = Res("get_all", kind, 0, json, status, r.how, r.exc,
                             IF r.how = "returned" THEN r.attrs ELSE r.value,
                             r.requests)
            /\ UNCHANGED headers

GetAllOps ==
    \E kind \in GetAllKinds : \E a \in ListAnswers(kind) :
        \E bad \in ListBadChoices(kind, a.body) :
            GetAll(kind, BaseOf(kind)[IF kind = "Host" THEN "eid" ELSE "hid"].v,
                   a.status, a.body, bad)

\* Engagement.get_all() answered with (status, json)
EngagementGetAll ==
    \E a \in EngagementListAnswers :
        \E r \in {Engagement_get_all(headers, a.status, a.body)} :
            /\ result' = Res("get_all", "Engagement", 0, a.body, a.status,
                             r.how, r.exc, r.attrs, r.requests)
            /\ UNCHANGED <<entities, headers>>

\* Engagement.get_eid(name) answered with (status, json): the record of the
\* call keeps the name with the response
EngagementGetEid ==
    \E name \in LookupNames : \E a \in EngagementListAnswers :
        \E r \in {Engagement_get_eid(name, headers, a.status, a.body)} :
            /\ result' = Res("get_eid", "Engagement", 0,
                             [name |-> PStr(name), response |-> a.body],
                             a.status, r.how, r.exc, r.value, r.requests)
            /\ UNCHANGED <<entities, headers>>

\* Engagement.get(name): the list read is answered with a, the read of the
\* engagement with b; status and input are those of the last response
EngagementGet ==
    /\ Len(entities) < MaxEntities
    /\ \E name \in LookupNames : \E a \in EngagementListAnswers :
          \E b \in ReadAnswers("Engagement") :
              \E r \in {Engagement_get(name, headers, a.status, a.body,
                                       b.status, b.body)} :
                  \E last \in {IF Len(r.requests) = 2 THEN b ELSE a} :
                      /\ IF r.how = "returned"
                         THEN /\ entities' = Append(entities,
                                    [kind |-> "Engagement", attrs |-> r.attrs])
                              /\ result' = Res("get", "Engagement",
                                               Len(entities) + 1, last.body,
                                               last.status, "returned", "", "",
                                               r.requests)
                         ELSE /\ entities' = entities
                              /\ result' = Res("get", "Engagement", 0,
                                               last.body, last.status, "raised",
                                               r.exc, r.value, r.requests)
                      /\ UNCHANGED headers

\* entities[i].to_dict(): the mapping it returns is kept in the record of
\* the call; nothing is assigned to self
ToDict(i) ==
    /\ result' = Res("to_dict", entities[i].kind, i,
                     to_dict(entities[i].attrs), 0, "returned", "", "", <<>>)
    /\ UNCHANGED <<entities, headers>>

ToDictAny == \E i \in 1..Len(entities) : ToDict(i)

NextOps ==
    \/ ImportSession
    \/ SessionReady /\ ConstructOps
    \/ SessionReady /\ CreateOps
    \/ SessionReady /\ AssignIdOps
    \/ SessionReady /\ ToDictAny
    \/ SessionReady /\ DeleteOps
    \/ SessionReady /\ UpdateOps
    \/ SessionReady /\ GetOps
    \/ SessionReady /\ GetAllOps
    \/ SessionReady /\ EngagementGetAll
    \/ SessionReady /\ EngagementGetEid
    \/ SessionReady /\ EngagementGet

SpecOps == InitOps /\ [][NextOps]_vars

\* the read calls alone: what they return does not depend on the entities
\* the caller holds
NextReads ==
    \/ ImportSession
    \/ SessionReady /\ GetOps
    \/ SessionReady /\ GetAllOps
    \/ SessionReady /\ EngagementGetAll
    \/ SessionReady /\ EngagementGetEid
    \/ SessionReady /\ EngagementGet

SpecReads == InitOps /\ [][NextReads]_vars

----------------------------------------------------------------------------
(* Two callers on the one session.  Caller 1 holds an engagement, caller 2  *)
(* a host; each runs a script of calls.  A create or an update is two      *)
(* steps, the assignment to session.headers and the rest of the method,    *)
(* which sends with the headers the session has at that moment; the steps  *)
(* of the two callers interleave.  The record of the run keeps the         *)
(* scripts, each caller's position, whether its header assignment has been *)
(* made, and the requests sent, in order.                                  *)

\* the longest script of a caller
MaxScript == 2

RaceOps == {"create", "update", "get", "delete"}

\* the calls whose first statement assigns the Content-Type header
Writes == {"create", "update"}

Scripts(n) == UNION {[1..m -> RaceOps] : m \in 1..n}

\* a Content-Type that depends on the call
WriteHeaders_PerOp(op, hdrs) ==
    Put(hdrs, "Content-Type",
        IF op = "update" THEN "application/merge-patch+json"
        ELSE "application/json")

\* self.pws_session.headers["Content-Type"] = "application/json"
WriteHeaders(op, hdrs) == Put(hdrs, "Content-Type", "application/json")

RaceEntities ==
    <<[kind |-> "Engagement",
       attrs |-> Engagement_init(
                    Put(EngagementBase, "archived",
                        PStr("2021-02-05T19:59:27.104Z"))).attrs],
      [kind |-> "Host",
       attrs |-> Host_init(Restrict(HostBase, LifecycleKeys), NoKey).attrs]>>

InitRace ==
    /\ entities = RaceEntities
    /\ headers = session([v \in {"PENTEST_WS_API_KEY"} |-> ApiKey]).headers
    /\ \E s1 \in Scripts(MaxScript) : \E s2 \in Scripts(1) :
          result = [op |-> "race", script |-> <<s1, s2>>, pc |-> <<1, 1>>,
                    armed |-> <<FALSE, FALSE>>, sent |-> <<>>]

\* the call of caller c that is under way
Current(c) == result.script[c][result.pc[c]]

\* the first statement of create and update
RaceSetHeader(c) ==
    /\ result.pc[c] <= Len(result.script[c])
    /\ Current(c) \in Writes
    /\ ~result.armed[c]
    /\ headers' = WriteHeaders(Current(c), headers)
    /\ result' = [result EXCEPT !.armed[c] = TRUE]
    /\ UNCHANGED entities

\* the call op of a kind on attrs, sent with hdrs and answered with status
RaceCall(kind, op, attrs, hdrs, status) ==
    CASE op = "create" ->
            CreateOf(kind, attrs, hdrs, status, [id |-> PStr("za4Kz7oy")])
      [] op = "update" -> UpdateOf(kind, attrs, hdrs, status, EmptyMap)
      [] op = "delete" -> DeleteOf(kind, attrs, hdrs, status)
      [] op = "get" ->
            IF kind = "Engagement"
            THEN Engagement_get_all(hdrs, status, PList(<<>>))
            ELSE GetEntity(kind, PyStr(attrs["id"]), hdrs, status,
                           PDict(Restrict(BaseOf(kind), LifecycleKeys)), NoKey)

\* the rest of the call: the request goes out with the session's headers
RaceSend(c) ==
    /\ result.pc[c] <= Len(result.script[c])
    /\ Current(c) \in Writes => result.armed[c]
    /\ \E status \in {200, 500} :
          \E r \in {RaceCall(entities[c].kind, Current(c), entities[c].attrs,
                             headers, status)} :
              /\ entities' = [entities EXCEPT ![c].attrs =
                                 IF Current(c) = "get" THEN @ ELSE r.attrs]
              /\ result' = [result EXCEPT
                               !.pc[c] = @ + 1,
                               !.armed[c] = FALSE,
                               !.sent = Append(@, [caller |-> c,
                                                   n |-> result.pc[c],
                                                   op |-> Current(c),
                                                   requests |-> r.requests])]
    /\ UNCHANGED headers

NextRace ==
    \/ \E c \in {1, 2} : RaceSetHeader(c)
    \/ \E c \in {1, 2} : RaceSend(c)

SpecRace == InitRace /\ [][NextRace]_vars

----------------------------------------------------------------------------
(* Construction followed by serialization: the constructor call of         *)
(* SpecValidate, then to_dict() on the entity it returned                  *)

\* the mappings of the validators, an engagement whose notes are a dict, and
\* engagements whose timestamps end a millisecond, a second and a year
SerializeInputs(kind) ==
    ValidatorInputs(kind)
    \cup IF kind = "Engagement"
         THEN {Put(EngagementBase, "notes", PDict([a \in {"k"} |-> PStr("x")])),
               Put(EngagementBase, "archived", PStr("2021-02-05T19:59:27.999999Z")),
               Put(EngagementBase, "archived", PStr("2021-12-31T23:59:59.9995Z"))}
         ELSE {}

InitSerialize ==
    /\ entities = <<>>
    /\ headers = [h \in {"X-API-KEY", "accept"} |->
                    IF h = "accept" THEN "application/json" ELSE ApiKey]
    /\ \E kind \in Kinds : \E data \in SerializeInputs(kind) :
          result = Pending(kind, data)

NextSerialize == ConstructPending \/ ToDictAny

SpecSerialize == InitSerialize /\ [][NextSerialize]_vars

----------------------------------------------------------------------------
(* Properties of construction and serialization (SpecValidate)             *)

\* the last call was a constructor call that returned an entity
Constructed == result.op = "construct" /\ result.how = "returned"

\* the last call was a constructor call that raised
Rejected == result.op = "construct" /\ result.how = "raised"

\* the attributes of the entity the last call was about
Entity == entities[result.ent].attrs

\* the constructor call was made on a schema-validated kind with every
\* supplied field valid except possibly the field k, which was supplied
OnlyFieldInDoubt(kind, k) ==
    /\ result.op = "construct"
    /\ result.kind = kind
    /\ Has(result.input, k)
    /\ FailingKeys(SchemaOf(kind), result.input) \subseteq {k}
    /\ MissingKeys(SchemaOf(kind), result.input) = {}
    /\ WrongKeys(SchemaOf(kind), result.input) = {}

\* C1, at the resource type whose float-valued fields the claim names: for
\* every field mapping m that Finding's validator accepts, to_dict() of the
\* entity constructed from m is equal to m.
C1_RoundTrip ==
    (Constructed /\ result.kind = "Finding") => to_dict(Entity) = result.input

\* C2 as stated: no key of to_dict() of a freshly constructed entity is a key
\* that the constructor input left out, Engagement included.
C2_Original == Constructed => DOMAIN to_dict(Entity) \subseteq DOMAIN result.input

\* C2 as amended: for the five schema-validated types every key of to_dict()
\* of a freshly constructed entity is a key of the input; for Engagement the
\* only keys that can appear without having been supplied are notes and
\* client_id, and they then carry the default empty string.
C2_OmittedAbsent ==
    Constructed =>
        LET extra == DOMAIN to_dict(Entity) \ DOMAIN result.input
        IN  /\ result.kind # "Engagement" => extra = {}
            /\ extra \subseteq {"notes", "client_id"}
            /\ \A k \in extra : to_dict(Entity)[k] = PStr("")

\* C2 witness: a schema-validated entity was constructed from a mapping that
\* leaves out an optional field.
C2_Witness ==
    /\ Constructed
    /\ result.kind = "Host"
    /\ ~Has(result.input, "label")
    /\ ~Has(to_dict(Entity), "label")

\* C3: when the input lacks a required field or carries an ill-typed field
\* the constructor raises a validation error and the caller holds no entity;
\* when it returns, every required field is an attribute of the entity.
C3_Atomic ==
    (result.op = "construct" /\ result.kind \in SchemaKinds) =>
        LET schema == SchemaOf(result.kind)
        IN  /\ (\/ MissingKeys(schema, result.input) # {}
                \/ FailingKeys(schema, result.input) # {})
               => /\ result.how = "raised"
                  /\ result.exc \in {"SchemaError", "SchemaMissingKeyError"}
                  /\ entities = <<>>
            /\ result.how = "returned"
               => \A k \in DOMAIN schema : schema[k].req => Has(Entity, k)

\* C3 witness: a constructor call without its required field has raised.
C3_Witness ==
    /\ Rejected
    /\ result.kind = "Port"
    /\ ~Has(result.input, "port")
    /\ result.exc = "SchemaMissingKeyError"
    /\ entities = <<>>

\* C4: when exactly one supplied field breaks its rule and all others are
\* valid, construction raises SchemaError whose text is the error= message of
\* that field's rule, which is the message of no other field of the schema.
C4_FieldMessage ==
    (result.op = "construct" /\ result.kind \in SchemaKinds) =>
        LET schema == SchemaOf(result.kind) IN
        \A k \in DOMAIN schema :
            (/\ OnlyFieldInDoubt(result.kind, k)
             /\ ~Accepts(schema[k], result.input[k]))
            => /\ result.how = "raised"
               /\ result.exc = "SchemaError"
               /\ result.value = schema[k].msg
               /\ \A j \in DOMAIN schema \ {k} : schema[j].msg # result.value
               /\ entities = <<>>

\* C4 witness: Host(os_type="other") has raised with the os_type message.
C4_Witness ==
    /\ Rejected
    /\ result.kind = "Host"
    /\ result.input = Put(HostBase, "os_type", PStr("other"))
    /\ result.value = "Not a valid \"os_type\"."

\* C5: with every other field valid, Port construction returns exactly when
\* port is an integer p with 0 <= p <= 65535, and otherwise raises SchemaError
\* with the text '"port" should be an intiger between 0 and 65,535.'.
C5_PortRange ==
    OnlyFieldInDoubt("Port", "port") /\ Has(result.input, "hid") =>
        LET x == result.input["port"]
        IN  /\ result.how = "returned"
               <=> (x.t = "int" /\ 0 <= x.v /\ x.v <= 65535)
            /\ result.how = "returned" => Entity["port"] = x
            /\ result.how = "raised"
               => /\ result.exc = "SchemaError"
                  /\ result.value
                       = "\"port\" should be an intiger between 0 and 65,535."

\* C5 witness: Port(port=65535) was constructed.
C5_Witness ==
    /\ Constructed
    /\ result.kind = "Port"
    /\ Has(result.input, "port")
    /\ result.input["port"] = PInt(65535)
    /\ Entity["port"] = PInt(65535)

IdKeys == {"id", "eid", "hid", "oid", "board_id"}

\* the text is 8 or more alphanumeric characters and nothing else
IdShaped(x) == IsStr(x) /\ Len(x.v) >= 8 /\ AllIn(x.v, AlnumChars)

\* C6: no constructed entity of any type, Engagement included, holds an
\* identity or parent identifier that is not a string of 8 or more
\* alphanumeric characters.
C6_IdShape ==
    Constructed => \A k \in IdKeys \cap DOMAIN Entity : IdShaped(Entity[k])

\* C7: with every other field valid, Host construction returns exactly when
\* target is a string that parses as an IPv4 or IPv6 address, and otherwise
\* raises with 'Target should be a valid IPv4 Address'; the stored and
\* serialized target denotes the address of the input, and every other text
\* of that address yields the same stored target.
C7_TargetCanonical ==
    OnlyFieldInDoubt("Host", "target") /\ Has(result.input, "eid") =>
        LET x == result.input["target"]
        IN  /\ result.how = "returned" <=> (IsStr(x) /\ IsIPAddress(x.v))
            /\ result.how = "raised"
               => /\ result.exc = "SchemaError"
                  /\ result.value = "Target should be a valid IPv4 Address"
            /\ result.how = "returned"
               => /\ IsStr(Entity["target"])
                  /\ to_dict(Entity)["target"] = Entity["target"]
                  /\ IsIPAddress(Entity["target"].v)
                  /\ ip_address(Entity["target"].v) = ip_address(x.v)
                  /\ \A t \in TargetTexts :
                        (IsIPAddress(t) /\ ip_address(t) = ip_address(x.v))
                        => Host_init(Put(result.input, "target", PStr(t)),
                                     NoKey).attrs["target"]
                           = Entity["target"]

\* C7 witness: a Host was constructed from an IPv6 text that is not in
\* canonical form, and holds the canonical form.
C7_Witness ==
    /\ Constructed
    /\ result.kind = "Host"
    /\ Has(result.input, "target")
    /\ result.input["target"] = PStr("2001:0DB8:85A3:0000:0000:8A2E:0370:7334")
    /\ Entity["target"] = PStr("2001:db8:85a3::8a2e:370:7334")

\* the text is the short code or the label of some entry of the list
CodeOrLabel(x, pairs) ==
    IsStr(x) /\ \E i \in 1..Len(pairs) : x.v = pairs[i][1] \/ x.v = pairs[i][2]

\* C8: with every other field valid, Host construction returns exactly when
\* os_type (resp. type) is the short code or the label of an entry of
\* OS_TYPES (resp. TYPES); the value is stored as supplied, and any other
\* value raises with 'Not a valid "os_type".' (resp. 'Not a valid "type".').
C8_OsTypeAndType ==
    /\ OnlyFieldInDoubt("Host", "os_type") /\ Has(result.input, "eid")
       => LET x == result.input["os_type"]
          IN  /\ result.how = "returned" <=> CodeOrLabel(x, OS_TYPES)
              /\ result.how = "returned" => Entity["os_type"] = x
              /\ result.how = "raised"
                 => /\ result.exc = "SchemaError"
                    /\ result.value = "Not a valid \"os_type\"."
    /\ OnlyFieldInDoubt("Host", "type") /\ Has(result.input, "eid")
       => LET x == result.input["type"]
          IN  /\ result.how = "returned" <=> CodeOrLabel(x, TYPES)
              /\ result.how = "returned" => Entity["type"] = x
              /\ result.how = "raised"
                 => /\ result.exc = "SchemaError"
                    /\ result.value = "Not a valid \"type\"."

\* C8 witness: a Host was constructed with the label "Unknown" (whose short
\* code is "question") as os_type and holds it as supplied.
C8_Witness ==
    /\ Constructed
    /\ result.kind = "Host"
    /\ Has(result.input, "os_type")
    /\ result.input["os_type"] = PStr("Unknown")
    /\ Entity["os_type"] = PStr("Unknown")

\* C9: with every other field valid, NotePage construction returns exactly
\* when otype is one of 'e', 'hosts', 'ports'.
C9_OtypeAccepted ==
    OnlyFieldInDoubt("NotePage", "otype") /\ Has(result.input, "oid") =>
        (result.how = "returned"
         <=> result.input["otype"] \in Strs({"e", "hosts", "ports"}))

----------------------------------------------------------------------------
(* Properties of the endpoint operations (Spec)                            *)

\* the Kind text of the messages and the human-facing field of a kind
KindText(kind) == IF kind = "NotePage" THEN "Note Page" ELSE kind

LabelField(kind) ==
    CASE kind = "Engagement" -> "name"
      [] kind = "Host" -> "target"
      [] kind = "Port" -> "port"
      [] OTHER -> "title"

\* C10: a create answered with status 200 and body {id: X} returns
\* '<Kind> <label> (X) created.', and afterwards the entity's attributes are
\* those it had before the call with id set to X.
C10_Create200 ==
    [][(/\ result'.op = "create"
        /\ result'.status = 200
        /\ Has(result'.input, "id"))
       => LET i == result'.ent
              X == result'.input["id"]
          IN  /\ result'.how = "returned"
              /\ entities'[i].kind = entities[i].kind
              /\ entities'[i].attrs = Put(entities[i].attrs, "id", X)
              /\ result'.value
                   = KindText(result'.kind) \o " "
                     \o PyStr(entities[i].attrs[LabelField(result'.kind)])
                     \o " (" \o X.v \o ") created."]_vars

\* C10 witness: the scenario of the engagement test, after create returned.
C10_Witness ==
    /\ result.op = "create"
    /\ result.status = 200
    /\ result.how = "returned"
    /\ result.kind = "Engagement"
    /\ entities[result.ent].attrs["id"] = PStr("za4Kz7oy")
    /\ result.value = "Engagement Engagement 1 (za4Kz7oy) created."

\* C11: a create answered with status 400 and a body carrying msg returns
\* 'Error: ' followed by msg, does not raise, and leaves every entity as it
\* was (an absent id stays absent, a present id keeps its value).
C11_Create400 ==
    [][(/\ result'.op = "create"
        /\ result'.status = 400
        /\ Has(result'.input, "msg"))
       => /\ result'.how = "returned"
          /\ result'.value = "Error: " \o PyStr(result'.input["msg"])
          /\ entities' = entities]_vars

\* C11 witness: create on an entity without id was answered 400 and returned
\* the error text; the entity still has no id.
C11_Witness ==
    /\ result.op = "create"
    /\ result.status = 400
    /\ result.how = "returned"
    /\ result.value = "Error: Missing name"
    /\ ~Has(entities[result.ent].attrs, "id")


\* C12: for Host, Port and Finding, whatever the response, create sends its
\* request with a body that has no parent-linkage field, and afterwards the
\* entity holds the parent-linkage value it held before and to_dict() emits it.
C12_LinkageKept ==
    [][(result'.op = "create" /\ result'.kind \in {"Host", "Port", "Finding"})
       => LET p == LinkageField(result'.kind)
              before == entities[result'.ent].attrs
              after  == entities'[result'.ent].attrs
          IN  /\ Len(result'.requests) = 1
              /\ \A n \in 1..Len(result'.requests) :
                    ~Has(result'.requests[n].body, p)
              /\ Has(after, p)
              /\ after[p] = before[p]
              /\ Has(to_dict(after), p)
              /\ to_dict(after)[p] = before[p]]_vars

\* C12 witness: a Host's create sent a body with target and without eid, and
\* the Host still holds its eid.
C12_Witness ==
    /\ result.op = "create"
    /\ result.kind = "Host"
    /\ Len(result.requests) = 1
    /\ Has(result.requests[1].body, "target")
    /\ ~Has(result.requests[1].body, "eid")
    /\ entities[result.ent].attrs["eid"] = PStr("ZaAvk46j")

----------------------------------------------------------------------------
(* Properties of delete, update and the read calls (SpecOps)               *)

\* C13: a delete, on a kind that has the method, of an entity that has an id
\* returns '<Kind> <label> (<id>) deleted.' when it is answered with 200 and
\* a string that starts with 'Error: ' and contains the id when it is
\* answered with 404, and leaves the entity's attributes as they were.
C13_DeleteReports ==
    [][(/\ result'.op = "delete"
        /\ result'.kind \in DeleteKinds
        /\ result'.status \in {200, 404}
        /\ Has(entities[result'.ent].attrs, "id"))
       => LET a  == entities[result'.ent].attrs
              id == PyStr(a["id"])
          IN  /\ result'.how = "returned"
              /\ result'.status = 200
                    => result'.value
                       = KindText(result'.kind) \o " "
                         \o PyStr(a[LabelField(result'.kind)])
                         \o " (" \o id \o ") deleted."
              /\ result'.status = 404
                    => /\ StartsWith(result'.value, "Error: ")
                       /\ Contains(result'.value, id)
              /\ entities' = entities]_vars

\* C14: a get of any kind, and Engagement.get_all, whose response status is
\* not 2xx does not return: it raises SystemExit.
C14_ReadAborts ==
    (/\ \/ result.op = "get"
        \/ result.op = "get_all" /\ result.kind = "Engagement"
     /\ ~(200 <= result.status /\ result.status < 300))
    => /\ result.how = "raised"
       /\ result.exc = "SystemExit"

\* the calls that are endpoint operations
EndpointOps == {"create", "get", "get_all", "get_eid", "update", "delete"}

\* the last call was Engagement.get(name)
GetByName == result.op = "get" /\ result.kind = "Engagement"

\* C15 as stated: every endpoint operation issues exactly one HTTP request
\* before it returns or raises.
C15_Original ==
    result.op \in EndpointOps => Len(result.requests) = 1

\* C15: every endpoint operation other than Engagement.get(name) issues at
\* most one HTTP request, and exactly one when it returns; Engagement.get
\* issues at most two, to different addresses (the list of engagements, then
\* the engagement with the id found), and exactly two when it returns; an
\* operation that issues none has raised AttributeError or KeyError before
\* sending.  No request is sent twice.
C15_RequestCount ==
    result.op \in EndpointOps
    => LET n == Len(result.requests)
       IN  /\ n <= (IF GetByName THEN 2 ELSE 1)
           /\ result.how = "returned" => n = (IF GetByName THEN 2 ELSE 1)
           /\ n = 0 => /\ result.how = "raised"
                       /\ result.exc \in {"AttributeError", "KeyError"}
           /\ n = 2 => /\ result.requests[1].url = path \o "/e"
                       /\ result.requests[2].url # result.requests[1].url

\* Engagement.get has returned an engagement after two requests
C15_Witness ==
    /\ GetByName
    /\ result.how = "returned"
    /\ Len(result.requests) = 2
    /\ result.requests[2].url = path \o "/e/7aBB7za9"
    /\ entities[result.ent].attrs["name"] = PStr("Engagement 1")

\* the status update anticipates as an error, and the direct address
AnticipatedError(kind) == IF kind = "NotePage" THEN 404 ELSE 400

DirectAddress(kind, id) ==
    IF kind = "Engagement" THEN path \o "/e/" \o id
    ELSE path \o "/" \o SegmentOf(kind) \o "/" \o id

\* C16: an update, on a kind that has the method, of an entity that has an
\* id, answered with 200 or with the anticipated error status, sends one
\* PUT to the entity's direct address
\* whose body is to_dict() without the immutable fields, returns
\* '<Kind> <label> (<id>) updated.' on 200 and a string starting with
\* 'Error: ' on the error status, and leaves to_dict() as it was; this with
\* or without created_at and archived.
C16_UpdateWrites ==
    [][(/\ result'.op = "update"
        /\ result'.kind \in UpdateKinds
        /\ Has(entities[result'.ent].attrs, "id")
        /\ \/ result'.status = 200
           \/ /\ result'.status = AnticipatedError(result'.kind)
              /\ result'.kind # "NotePage" => Has(result'.input, "msg"))
       => LET a    == entities[result'.ent].attrs
              kind == result'.kind
              id   == PyStr(a["id"])
          IN  /\ result'.how = "returned"
              /\ Len(result'.requests) = 1
              /\ result'.requests[1].method = "PUT"
              /\ result'.requests[1].url = DirectAddress(kind, id)
              /\ result'.requests[1].body
                 = [k \in DOMAIN to_dict(a)
                         \ {"id", "eid", "oid", "otype", "created_at",
                            "archived"} |-> to_dict(a)[k]]
              /\ IF result'.status = 200
                 THEN result'.value
                      = KindText(kind) \o " " \o PyStr(a[LabelField(kind)])
                        \o " (" \o id \o ") updated."
                 ELSE StartsWith(result'.value, "Error: ")
              /\ to_dict(entities'[result'.ent].attrs) = to_dict(a)]_vars

----------------------------------------------------------------------------
(* Properties of the session (SpecOps)                                     *)

\* C17: an import in an environment without PENTEST_WS_API_KEY raises
\* APIKeyMissingError and leaves no session; in an environment with it the
\* key obtained, and sent as X-API-KEY, is the variable's value; and no
\* request is ever issued without a session that holds the key.
C17_KeyRequired ==
    /\ result.op = "import"
          => IF Has(result.input, "PENTEST_WS_API_KEY")
             THEN /\ result.how = "returned"
                  /\ result.value = result.input["PENTEST_WS_API_KEY"]
                  /\ headers["X-API-KEY"] = result.input["PENTEST_WS_API_KEY"]
             ELSE /\ result.how = "raised"
                  /\ result.exc = "APIKeyMissingError"
                  /\ ~SessionReady
    /\ ~SessionReady => entities = <<>> /\ result.requests = <<>>
    /\ \A n \in 1..Len(result.requests) :
          /\ Has(result.requests[n].headers, "X-API-KEY")
          /\ result.requests[n].headers["X-API-KEY"] = headers["X-API-KEY"]

\* the import has failed in an environment that has other variables only
C17_Witness ==
    /\ result.op = "import"
    /\ result.input = [v \in {"HOME"} |-> "/root"]
    /\ result.how = "raised"
    /\ result.exc = "APIKeyMissingError"
    /\ headers = [h \in {} |-> ""]

----------------------------------------------------------------------------
(* Properties of the lookup by name (SpecReads)                            *)

\* C18: get_eid(name), when the response is a list of engagements, returns
\* the id of the earliest engagement of the list whose name equals name, and
\* raises IndexError when the list has no engagement of that name.
C18_FirstMatch ==
    (result.op = "get_eid" /\ IsList(result.input["response"]))
    => LET items == result.input["response"].v
           hits  == {n \in 1..Len(items) :
                       items[n].v["name"] = result.input["name"]}
           first == CHOOSE n \in hits : \A m \in hits : n <= m
       IN  IF hits = {}
           THEN result.how = "raised" /\ result.exc = "IndexError"
           ELSE /\ result.how = "returned"
                /\ result.value = items[first].v["id"].v

\* two engagements of the list have the name, and the id returned is that of
\* the earlier one, which is not the first engagement of the list
C18_Witness ==
    /\ result.op = "get_eid"
    /\ IsList(result.input["response"])
    /\ Len(result.input["response"].v) = 3
    /\ result.input["response"].v[2].v["name"] = result.input["name"]
    /\ result.input["response"].v[3].v["name"] = result.input["name"]
    /\ result.how = "returned"
    /\ result.value = "7aBB7za9"

----------------------------------------------------------------------------
(* Properties of the derived addresses                                     *)

\* the attribute that holds the self address of a kind, and its segment
SelfAttr(kind) ==
    CASE kind = "Host" -> "host_path"
      [] kind = "Port" -> "port_path"
      [] kind = "Finding" -> "finding_path"
      [] kind = "NotePage" -> "notepad_path"
      [] kind = "Scratchpad" -> "scratchpad_path"

SelfSegment(kind) == IF kind = "Finding" THEN "findings" ELSE SegmentOf(kind)

\* C19: in every state, an entity of Host, Port, Finding, NotePage or
\* Scratchpad that has an id has a self address, and it is the base URL, the
\* kind's segment and the entity's current id.
C19_AddressTracksId ==
    \A i \in 1..Len(entities) :
        (entities[i].kind \in SchemaKinds /\ Has(entities[i].attrs, "id"))
        => /\ Has(entities[i].attrs, SelfAttr(entities[i].kind))
           /\ entities[i].attrs[SelfAttr(entities[i].kind)]
              = PStr(path \o "/" \o SelfSegment(entities[i].kind) \o "/"
                     \o PyStr(entities[i].attrs["id"]))

\* the fields the collection address of a kind is derived from, and the
\* attribute that holds it
ParentFields(kind) ==
    CASE kind \in {"Host", "Finding"} -> {"eid"}
      [] kind \in {"Port", "Scratchpad"} -> {"hid"}
      [] kind = "NotePage" -> {"oid", "otype"}

ParentAttr(kind) ==
    CASE kind \in {"Host", "Finding"} -> "engagement_path"
      [] kind \in {"Port", "Scratchpad"} -> "host_path"
      [] kind = "NotePage" -> "object_path"

\* C20: constructing a Host, Port, Finding, NotePage or Scratchpad from the
\* valid mapping of its kind without the id, or without one field of the
\* parent identifier, succeeds and leaves the corresponding address unset.
C20_BestEffort ==
    (/\ result.op = "construct"
     /\ result.kind \in SchemaKinds
     /\ \E k \in {"id"} \cup ParentFields(result.kind) :
           result.input = Del(BaseOf(result.kind), k))
    => /\ result.how = "returned"
       /\ ~Has(result.input, "id")
             => ~Has(entities[result.ent].attrs, SelfAttr(result.kind))
       /\ ParentFields(result.kind) \ DOMAIN result.input # {}
             => ~Has(entities[result.ent].attrs, ParentAttr(result.kind))

----------------------------------------------------------------------------
(* Properties of serialization across the operations (SpecOps)             *)

\* the derived address attributes of the endpoint classes
PathAttrs ==
    {"host_path", "engagement_path", "port_path", "finding_path",
     "notepad_path", "object_path", "scratchpad_path"}

\* a key that to_dict() must hold back
Internal(k) == k \in PathAttrs \/ EndsWith(k, "path") \/ StartsWith(k, "__")

C22_PortScratchpadWrites ==
    [][(/\ result'.op \in {"delete", "update"}
        /\ result'.kind \in {"Port", "Scratchpad"}
        /\ Has(entities[result'.ent].attrs, "id")
        /\ result'.status \in (IF result'.op = "delete" THEN {200, 404}
                               ELSE {200, 400}))
       => LET a     == entities[result'.ent].attrs
              named == result'.kind \o " "
                       \o PyStr(a[LabelField(result'.kind)])
                       \o " (" \o PyStr(a["id"]) \o ")"
          IN  /\ result'.how = "returned"
              /\ result'.value
                 = CASE result'.op = "delete" /\ result'.status = 200
                           -> named \o " deleted."
                     [] result'.op = "delete" /\ result'.status = 404
                           -> "Error: " \o named \o " not found"
                     [] result'.op = "update" /\ result'.status = 200
                           -> named \o " updated."
                     [] OTHER -> result'.value
              /\ result'.op = "update" /\ result'.status = 400
                    => StartsWith(result'.value, "Error: ")
              /\ to_dict(entities'[result'.ent].attrs) = to_dict(a)]_vars

----------------------------------------------------------------------------
(* Properties of to_dict (SpecSerialize)                                   *)

Digits(n, width) == ZeroPad(NatToStr(n, 10), width)

\* 'YYYY-MM-DDTHH:MM:SS.mmmZ' of a datetime, mmm the whole milliseconds
WireText(d) ==
    Digits(d.year, 4) \o "-" \o Digits(d.month, 2) \o "-" \o Digits(d.day, 2)
    \o "T" \o Digits(d.hour, 2) \o ":" \o Digits(d.minute, 2) \o ":"
    \o Digits(d.second, 2) \o "." \o Digits(d.microsecond \div 1000, 3) \o "Z"

\* the value is a string of the shape dddd-dd-ddTdd:dd:dd.dddZ
WireFormat(x) ==
    /\ IsStr(x)
    /\ Len(x.v) = 24
    /\ \A i \in 1..24 :
          Char(x.v, i) \in CASE i \in {5, 8} -> {"-"}
                             [] i = 11 -> {"T"}
                             [] i \in {14, 17} -> {":"}
                             [] i = 20 -> {"."}
                             [] i = 24 -> {"Z"}
                             [] OTHER -> DigitChars

\* C24: to_dict() emits every datetime attribute as
\* 'YYYY-MM-DDTHH:MM:SS.mmmZ' with mmm the microseconds integer-divided by
\* 1000, and the to_dict() of an engagement just built from a created_at or
\* archived string of that shape returns the same string.
C24_TimestampText ==
    [][result'.op = "to_dict"
       => LET a == entities[result'.ent].attrs
              d == result'.input
          IN  /\ \A k \in DOMAIN a :
                    IsDatetime(a[k]) => d[k] = PStr(WireText(a[k].v))
              /\ (/\ result.op = "construct"
                  /\ result.ent = result'.ent
                  /\ result.kind = "Engagement")
                 => \A k \in {"created_at", "archived"} \cap DOMAIN result.input :
                       WireFormat(result.input[k]) => d[k] = result.input[k]]_vars

\* an engagement built with created_at '2021-02-05T19:59:27.104Z' and an
\* archived time of 999999 microseconds has been serialized: the first text
\* is returned as it was, the second cut to .999
C24_Witness ==
    /\ result.op = "to_dict"
    /\ result.kind = "Engagement"
    /\ Has(result.input, "archived")
    /\ Has(result.input, "created_at")
    /\ entities[result.ent].attrs["archived"].v.microsecond = 999999
    /\ result.input["archived"] = PStr("2021-02-05T19:59:27.999Z")
    /\ result.input["created_at"] = PStr("2021-02-05T19:59:27.104Z")

----------------------------------------------------------------------------
(* Properties of the writes across the operations (SpecOps)                *)

\* the statuses a write anticipates
Anticipated(op) ==
    CASE op = "create" -> {200, 400}
      [] op = "update" -> {200, 400, 404}
      [] op = "delete" -> {200, 404}

\* C25: a create, update or delete of any kind that is answered with a
\* status other than 200 and the anticipated error status (400 for create,
\* 400 or 404 for update, 404 for delete) does not return a string: it
\* raises, and the entity is as it was.
C25_UnhandledStatus ==
    [][(/\ result'.op \in {"create", "update", "delete"}
        /\ result'.status \notin Anticipated(result'.op))
       => /\ result'.how = "raised"
          /\ entities' = entities]_vars

\* C26: a step of the library changes the attributes of an entity the
\* caller holds only when it is a create of that entity answered with 200,
\* and then only the id, which becomes the id of the response; every other
\* call (get, get_all, update, delete, to_dict, a create answered
\* otherwise) leaves every entity as it was.  The caller's own assignment
\* of an id is not a step of the library.
C26_OnlyCreateWrites ==
    [][/\ Len(entities') >= Len(entities)
       /\ \A i \in 1..Len(entities) :
             /\ entities'[i].kind = entities[i].kind
             /\ entities'[i].attrs # entities[i].attrs
                   => \/ result'.op = "assign" /\ result'.ent = i
                      \/ /\ result'.op = "create"
                         /\ result'.status = 200
                         /\ result'.ent = i
                         /\ DOMAIN entities'[i].attrs
                            = DOMAIN entities[i].attrs \cup {"id"}
                         /\ \A k \in DOMAIN entities[i].attrs \ {"id"} :
                               entities'[i].attrs[k] = entities[i].attrs[k]
                         /\ entities'[i].attrs["id"] = result'.input["id"]]_vars

\* a create answered with 200 has replaced the id of a host that had one:
\* the address derived from the earlier id is still there
C26_Witness ==
    /\ result.op = "create"
    /\ result.kind = "Host"
    /\ result.status = 200
    /\ result.how = "returned"
    /\ entities[result.ent].attrs["id"] = PStr("za4Kz7oy")
    /\ Has(entities[result.ent].attrs, "host_path")
    /\ entities[result.ent].attrs["host_path"]
       = PStr(path \o "/hosts/No3e25l6")
    /\ entities[result.ent].attrs["target"] = PStr("1.2.3.4")

----------------------------------------------------------------------------
(* Properties of the shared session's headers (SpecOps)                    *)

\* C27: the import gives the session the X-API-KEY of the environment and
\* accept 'application/json' and no Content-Type; no later step changes or
\* removes either of the two; Content-Type appears only in a create or an
\* update, as 'application/json', and stays; and every request of a step
\* carries the session's headers: the key, accept and, once it is set, the
\* Content-Type, in reads and deletes as well.
C27_SessionHeaders ==
    [][/\ (result'.op = "import" /\ result'.how = "returned")
             => headers' = [h \in {"X-API-KEY", "accept"} |->
                              IF h = "accept" THEN "application/json"
                              ELSE result.input["PENTEST_WS_API_KEY"]]
       /\ SessionReady
             => /\ Has(headers', "X-API-KEY") /\ Has(headers', "accept")
                /\ headers'["X-API-KEY"] = headers["X-API-KEY"]
                /\ headers'["accept"] = "application/json"
                /\ Has(headers, "Content-Type")
                      => /\ Has(headers', "Content-Type")
                         /\ headers'["Content-Type"] = "application/json"
                /\ (~Has(headers, "Content-Type") /\ Has(headers', "Content-Type"))
                      => /\ result'.op \in {"create", "update"}
                         /\ headers'["Content-Type"] = "application/json"
                /\ \A n \in 1..Len(result'.requests) :
                      result'.requests[n].headers = headers']_vars

\* a delete has been sent with the key of the environment, accept and the
\* Content-Type that an earlier create left on the session
C27_Witness ==
    /\ result.op = "delete"
    /\ Len(result.requests) = 1
    /\ result.requests[1].headers
       = [h \in {"X-API-KEY", "accept", "Content-Type"} |->
            IF h = "X-API-KEY" THEN "k2" ELSE "application/json"]

----------------------------------------------------------------------------
(* Properties of two callers on the one session (SpecRace)                 *)

\* the n-th call of a script, run alone, is sent with a Content-Type: the
\* script has a create or an update among its first n calls
AloneTyped(script, n) == \E m \in 1..n : script[m] \in Writes

\* caller c has made the header assignment of a create or an update
HasWritten(c) ==
    \E m \in 1..Len(result.script[c]) :
        /\ result.script[c][m] \in Writes
        /\ m < result.pc[c] \/ (m = result.pc[c] /\ result.armed[c])

\* C28: in every interleaving of the two callers every request of a create
\* or an update carries Content-Type 'application/json', and no request
\* carries any other Content-Type; a request carries a Content-Type that it
\* does not carry when its caller runs alone only after the other caller has
\* made the header assignment of a write.  (That such an interleaving
\* exists is the witness.)
C28_WritesTyped ==
    \A e \in 1..Len(result.sent) :
        \A k \in 1..Len(result.sent[e].requests) :
            LET h     == result.sent[e].requests[k].headers
                c     == result.sent[e].caller
                alone == AloneTyped(result.script[c], result.sent[e].n)
            IN  /\ result.sent[e].op \in Writes => Has(h, "Content-Type")
                /\ Has(h, "Content-Type")
                      => h["Content-Type"] = "application/json"
                /\ Has(h, "Content-Type") # alone
                      => Has(h, "Content-Type") /\ HasWritten(3 - c)

\* a read or a delete of a caller whose script has no write before it has
\* gone out with the Content-Type the other caller's write left on the
\* session
C28_Witness ==
    \E e \in 1..Len(result.sent) :
        /\ result.sent[e].op \in {"get", "delete"}
        /\ Len(result.sent[e].requests) = 1
        /\ Has(result.sent[e].requests[1].headers, "Content-Type")
        /\ ~AloneTyped(result.script[result.sent[e].caller], result.sent[e].n)
        /\ HasWritten(3 - result.sent[e].caller)

----------------------------------------------------------------------------
(* Properties of get_all (SpecReads)                                       *)

\* the item passes the validator of the kind
PassesValidator(kind, item) ==
    /\ IsDict(item)
    /\ FailingKeys(SchemaOf(kind), item.v) = {}
    /\ MissingKeys(SchemaOf(kind), item.v) = {}
    /\ WrongKeys(SchemaOf(kind), item.v) = {}

\* C29: get_all of Host, Port and Scratchpad, when the response is a list,
\* returns as many entities as the list has items, the n-th being what the
\* constructor makes of the n-th item, if every item passes the validator,
\* and raises, returning no list, if one does not; Engagement.get_all
\* returns the decoded response as it is.
C29_GetAllRebuilds ==
    /\ (result.op = "get_all" /\ result.kind \in GetAllKinds
        /\ IsList(result.input))
       => LET items == result.input.v
          IN  IF \A n \in 1..Len(items) : PassesValidator(result.kind, items[n])
              THEN /\ result.how = "returned"
                   /\ Len(result.value) = Len(items)
                   /\ \A n \in 1..Len(items) :
                         /\ result.value[n]
                            = NewEntity(result.kind, items[n].v, NoKey).attrs
                         /\ result.value[n]["id"] = items[n].v["id"]
              ELSE /\ result.how = "raised"
                   /\ result.exc = "SchemaError"
                   /\ result.ent = 0
    /\ (result.op = "get_all" /\ result.kind = "Engagement")
       => /\ result.how = "returned"
          /\ result.value = result.input

\* get_all has returned two hosts in the order of the response, which is
\* not the order of their ids
C29_Witness ==
    /\ result.op = "get_all"
    /\ result.kind = "Host"
    /\ result.how = "returned"
    /\ Len(result.value) = 2
    /\ result.value[1]["id"] = PStr("za4Kz7oy")
    /\ result.value[2]["id"] = PStr("No3e25l6")
    /\ result.value[2]["host_path"] = PStr(path \o "/hosts/No3e25l6")

----------------------------------------------------------------------------
(* Properties of the lifecycle (SpecOps)                                   *)

\* the entity was constructed without an id: the constructor is the only
\* place that sets the self address, and it does so when there is an id
BuiltWithoutId(e) == ~Has(e.attrs, SelfAttr(e.kind))

\* C30: a Host or NotePage that was constructed without an id and has just
\* been given the id X by a create answered with 200 can be updated and
\* deleted: the update or delete that follows, answered with 200, sends its
\* request to the direct address that ends in X and returns a message that
\* names X.  And whenever a delete or an update of any entity returns a
\* message that names the entity's id, the request went to the address that
\* ends in that id.
C30_Lifecycle ==
    [][/\ (/\ result.op = "create"
           /\ result.kind \in {"Host", "NotePage"}
           /\ result.status = 200
           /\ result.how = "returned"
           /\ BuiltWithoutId(entities[result.ent])
           /\ result'.op \in {"update", "delete"}
           /\ result'.ent = result.ent
           /\ result'.status = 200)
          => /\ result'.how = "returned"
             /\ Len(result'.requests) = 1
             /\ result'.requests[1].url
                = DirectAddress(result.kind, PyStr(result.input["id"]))
             /\ Contains(result'.value,
                         "(" \o PyStr(result.input["id"]) \o ")")
       /\ (/\ result'.op \in {"update", "delete"}
           /\ result'.how = "returned"
           /\ Len(result'.requests) = 1
           /\ Has(entities[result'.ent].attrs, "id")
           /\ Contains(result'.value,
                       "(" \o PyStr(entities[result'.ent].attrs["id"]) \o ")"))
          => EndsWith(result'.requests[1].url,
                      "/" \o PyStr(entities[result'.ent].attrs["id"]))]_vars

====
